---- MODULE Spec2Model ----
(***************************************************************************)
(* The content-to-game generation pipeline of src/services/gemini.ts:      *)
(* generateGameFromContent driving the strategy ladder, withTimeout racing *)
(* the provider's promise against a local timer, delay as backoff, and     *)
(* parseGameResponse building the GameData.                                *)
(*                                                                         *)
(* Execution is the browser's event loop.  A macrotask (a timer callback,  *)
(* a settling network request) runs only when the async function is        *)
(* suspended at an await; the steps of the async function between two      *)
(* awaits are the pc positions below and run to completion first.          *)
(* Time is in milliseconds and advances from one due event to the next.    *)
(* Strategy indices are 0-based as in the source.                          *)
(***************************************************************************)
EXTENDS Integers, Sequences, FiniteSets, TLC

VARIABLES
    now,        \* the clock, ms since the invocation
    pc,         \* position of generateGameFromContent
    i,          \* the loop index of the strategy loop
    observer,   \* the onProgress argument: "none", "returns" or "throws"
    provider,   \* what the provider does with the request of each strategy
    calls,      \* the provider requests issued so far, in order
    issuedAt,   \* per strategy: when its request was issued (-1: not yet)
    promise,    \* per strategy: state of the provider's promise
    timer,      \* per strategy: state of withTimeout's timer
    wt,         \* per strategy: settlement of the promise withTimeout returns
    stale,      \* strategies whose provider listener ran after their timeout
    backoffDue, \* when the pending delay() resolves (-1: none pending)
    progress,   \* the stages handed to onProgress, in order
    thrown,     \* the error travelling to the catch clause
    lastError,  \* the variable lastError
    warned,     \* what console.warn logged, in order
    result,     \* how the returned promise settled
    settles,    \* how many times the returned promise settled
    options,    \* the options argument of generateGameFromContent
    parseIn,    \* a call of parseGameResponse on its own: its arguments
    parseOut,   \* and what it returned or threw
    ppIn,       \* a call of preprocessContent on its own: its arguments
    ppOut,      \* and what it returned
    view,          \* App: which screen is mounted
    gameData,      \* App: the generation whose GameData was delivered (0: null)
    canGenerate,   \* CreateGame: content and objective are both non-blank
    loading,       \* CreateGame: state loading
    progressStage, \* CreateGame: state progressStage
    error,         \* CreateGame: state error ("null": none)
    isCancelled,   \* CreateGame: isCancelled.current, one ref for all generations
    started,       \* CreateGame: how many times handleGenerate got past its guard
    gens,          \* per generation: where its generateGameFromContent stands
    cancelledGens, \* history: the generations the user has cancelled
    shown,         \* history: who called setProgressStage from a progress callback
    delivered,     \* history: the calls of onGameGenerated
    errorsShown,   \* history: the calls of setError in the catch clause
    contentInput,  \* CreateGame: state content
    objective,     \* CreateGame: state objective
    fileName,      \* CreateGame: state fileName
    isParsing,     \* CreateGame: state isParsing
    upload,        \* the file handleFileUpload is waiting for, and how far
                   \* parseFile has read it
    preferredMechanics, \* CreateGame: state preferredMechanics
    avoidMechanics,     \* CreateGame: state avoidMechanics
    playData,      \* GamePlay: the gameData it is given (the correctIndex of
                   \* each question, and isEngine)
    phase,         \* GamePlay: state phase
    currentQuestionIndex, \* GamePlay: state currentQuestionIndex
    selectedOption,\* GamePlay: state selectedOption (NoOption: null)
    score,         \* GamePlay: state score
    streak,        \* GamePlay: state streak
    engineHealth,  \* GamePlay: state engineHealth
    engineEnergy,  \* GamePlay: state engineEnergy
    resultsTimers, \* GamePlay: the setTimeout callbacks of handleAnswer that
                   \* have not run yet
    answersTaken,  \* history: per question, the calls of handleAnswer that
                   \* went past its guard
    joinCode,      \* StudentJoin: state code
    joinName,      \* StudentJoin: state name
    joinError,     \* StudentJoin: state error
    joining,       \* StudentJoin: state joining
    gameStatus,    \* StudentJoin: state gameStatus
    statusTimer,   \* StudentJoin: the timer of the status check of the effect
    statusFor,     \* history: the code whose check gave gameStatus
    joinTimers     \* the timers of handleJoin that have not run yet, each with
                   \* the code, name and onJoin of the render that set it

(* The variables of one invocation of generateGameFromContent. *)
pipeVars == <<now, pc, i, observer, provider, calls, issuedAt, promise, timer, wt,
              stale, backoffDue, progress, thrown, lastError, warned, result, settles>>

(* The state of App and of the CreateGame component. *)
cgVars == <<view, gameData, canGenerate, loading, progressStage, error, isCancelled,
            started, gens, cancelledGens, shown, delivered, errorsShown>>

(* What no step of generateGameFromContent changes. *)
pureVars == <<parseIn, parseOut, ppIn, ppOut>>

(* What handleFileUpload and the two text inputs work on. *)
uploadVars == <<contentInput, objective, fileName, isParsing, upload>>

(* The mechanic hints of the advanced options. *)
hintVars == <<preferredMechanics, avoidMechanics>>

(* The state of the other screens and panels. *)
(* The state of GamePlay. *)
gamePlayVars == <<playData, phase, currentQuestionIndex, selectedOption, score,
                  streak, engineHealth, engineEnergy, resultsTimers,
                  answersTaken>>

(* The state of StudentJoin, and the timers its instances left behind. *)
joinVars == <<joinCode, joinName, joinError, joining, gameStatus, statusTimer,
              statusFor, joinTimers>>

otherScreens == <<hintVars, gamePlayVars, joinVars>>

rest == <<options, pureVars, cgVars, uploadVars, otherScreens>>

vars == <<pipeVars, rest>>

----------------------------------------------------------------------------
(* TIMEOUT_CONFIG *)

INITIAL_TIMEOUT == 90000

FALLBACK_TIMEOUT == 75000

MINIMAL_TIMEOUT == 60000

HIGH == 12000

MEDIUM == 6000

LOW == 3000

(* The base of the backoff, 1500 * (i + 1). *)
BackoffBase == 1500

(* Faulty variant: the second rung copied from the first, timeout kept. *)
strategiesCopied ==
    (0 :> [label |-> "Full Analysis", charLimit |-> HIGH,
           timeout |-> INITIAL_TIMEOUT, temperature |-> 4]) @@
    (1 :> [label |-> "Condensed Summary", charLimit |-> MEDIUM,
           timeout |-> INITIAL_TIMEOUT, temperature |-> 5]) @@
    (2 :> [label |-> "Key Concepts", charLimit |-> LOW,
           timeout |-> MINIMAL_TIMEOUT, temperature |-> 6])

(* The strategy ladder.  Temperatures are in tenths (0.4, 0.5, 0.6). *)
strategies ==
    (0 :> [label |-> "Full Analysis", charLimit |-> HIGH,
           timeout |-> INITIAL_TIMEOUT, temperature |-> 4]) @@
    (1 :> [label |-> "Condensed Summary", charLimit |-> MEDIUM,
           timeout |-> FALLBACK_TIMEOUT, temperature |-> 5]) @@
    (2 :> [label |-> "Key Concepts", charLimit |-> LOW,
           timeout |-> MINIMAL_TIMEOUT, temperature |-> 6])

StrategyIndex == DOMAIN strategies

strategiesLength == Cardinality(StrategyIndex)

(* label.toLowerCase() on the labels of the ladder. *)
toLowerCase(label) ==
    CASE label = "Full Analysis" -> "full analysis"
      [] label = "Condensed Summary" -> "condensed summary"
      [] label = "Key Concepts" -> "key concepts"

(* Faulty variant: the retry stage names the strategy that just failed. *)
StageMessagePrevious(k) ==
    IF k = 0 THEN "Analyzing content..."
    ELSE "Retrying with " \o toLowerCase(strategies[k - 1].label) \o "..."

(* The stage handed to onProgress at the start of attempt k. *)
StageMessage(k) ==
    IF k = 0 THEN "Analyzing content..."
    ELSE "Retrying with " \o toLowerCase(strategies[k].label) \o "..."

FinalizingMessage == "Finalizing game..."

ExhaustionMessage ==
    "We couldn't generate a game from this content after multiple attempts. Please try using a shorter document or pasting a summary."

InvalidFormatMessage ==
    "The AI generated an invalid game format. Please try again."

EmptyResponseMessage == "Empty response from AI"

(* new Error(`Timeout after ${timeoutMs}ms (${label})`) *)
TimeoutError(timeoutMs, label) ==
    [message |-> "Timeout after " \o ToString(timeoutMs) \o "ms (" \o label \o ")"]

(* let lastError: Error | null = null *)
NullError == [message |-> "null"]

(* Strings whose characters matter only by where they come from: a string *)
(* is a sequence of pieces, a piece being the characters from..to-1 of    *)
(* the uploaded document ("doc") or of one of the two markers that        *)
(* preprocessContent inserts.  No piece is empty.                         *)
ContinuesMarkerLength == 31

MoreMarkerLength == 26

(* "\n\n[... content continues ...]\n\n" *)
ContinuesMarker == [t |-> "continues", from |-> 0, to |-> ContinuesMarkerLength]

(* "\n\n[... more content ...]\n\n" *)
MoreMarker == [t |-> "more", from |-> 0, to |-> MoreMarkerLength]

(* A document of len characters. *)
Document(len) == IF len = 0 THEN <<>> ELSE <<[t |-> "doc", from |-> 0, to |-> len]>>

(* str.length *)
RECURSIVE Length(_)
Length(str) ==
    IF str = <<>> THEN 0 ELSE (Head(str).to - Head(str).from) + Length(Tail(str))

(* The characters a..b-1 of str, for 0 <= a and b <= str.length. *)
RECURSIVE Characters(_, _, _)
Characters(str, a, b) ==
    IF str = <<>> \/ a >= b THEN <<>>
    ELSE LET p == Head(str)
             n == p.to - p.from
         IN  IF a >= n THEN Characters(Tail(str), a - n, b - n)
             ELSE IF b <= n THEN <<[p EXCEPT !.from = p.from + a, !.to = p.from + b]>>
             ELSE <<[p EXCEPT !.from = p.from + a]>> \o Characters(Tail(str), 0, b - n)

(* How String.prototype.slice reads an index: a negative one counts from  *)
(* the end, and the result is clamped to 0..length.                       *)
RelativeIndex(k, len) ==
    IF k < 0 THEN (IF len + k < 0 THEN 0 ELSE len + k)
    ELSE (IF k > len THEN len ELSE k)

(* str.slice(begin, end) *)
slice(str, begin, end) ==
    Characters(str, RelativeIndex(begin, Length(str)), RelativeIndex(end, Length(str)))

(* Faulty variant: the middle segment starts at the midpoint. *)
preprocessContentFromMidpoint(content, maxLength) ==
    IF Length(content) <= maxLength THEN content
    ELSE LET chunkSize == maxLength \div 3
             beginning == slice(content, 0, chunkSize)
             middleStart == Length(content) \div 2
             middle == slice(content, middleStart, middleStart + chunkSize)
             end == slice(content, 0 - chunkSize, Length(content))
         IN  beginning \o <<ContinuesMarker>> \o middle \o <<MoreMarker>> \o end

(* Faulty variant: content as long as the budget is truncated too. *)
preprocessContentStrict(content, maxLength) ==
    IF Length(content) < maxLength THEN content
    ELSE LET chunkSize == maxLength \div 3
             beginning == slice(content, 0, chunkSize)
             middleStart == (Length(content) \div 2) - (chunkSize \div 2)
             middle == slice(content, middleStart, middleStart + chunkSize)
             end == slice(content, 0 - chunkSize, Length(content))
         IN  beginning \o <<ContinuesMarker>> \o middle \o <<MoreMarker>> \o end

(* preprocessContent(content, maxLength); content.slice(-chunkSize) has   *)
(* no end argument, which slice reads as the length.                      *)
preprocessContent(content, maxLength) ==
    IF Length(content) <= maxLength THEN content
    ELSE LET chunkSize == maxLength \div 3
             beginning == slice(content, 0, chunkSize)
             middleStart == (Length(content) \div 2) - (chunkSize \div 2)
             middle == slice(content, middleStart, middleStart + chunkSize)
             end == slice(content, 0 - chunkSize, Length(content))
         IN  beginning \o <<ContinuesMarker>> \o middle \o <<MoreMarker>> \o end

(* The prompt and the schema of GameData: EXACTLY 5 questions. *)
RequiredQuestions == 5

(* options.preferredGenre is optional: the value of a missing one. *)
Undefined == "undefined"

(* The values the || operator takes for false. *)
Falsy == {Undefined, ""}

(* Faulty variant: a preferred genre wins whatever the game mode. *)
ThemeGenreFirst(opts) ==
    IF opts.preferredGenre \notin Falsy THEN opts.preferredGenre
    ELSE IF opts.gameMode = "engine" THEN "Adventure" ELSE "Quiz"

(* options.gameMode === engine ? (options.preferredGenre || Adventure) : Quiz *)
Theme(opts) ==
    IF opts.gameMode = "engine"
    THEN (IF opts.preferredGenre \in Falsy THEN "Adventure" ELSE opts.preferredGenre)
    ELSE "Quiz"

(* Faulty variant: a retry condenses what the attempt before it sent. *)
PromptFromCondensed(opts, k) ==
    [gameMode |-> opts.gameMode,
     content |-> IF k = 0 THEN preprocessContent(opts.content, strategies[k].charLimit)
                 ELSE preprocessContent(
                          preprocessContent(opts.content, strategies[k - 1].charLimit),
                          strategies[k].charLimit),
     questions |-> RequiredQuestions,
     theme |-> Theme(opts)]

(* The prompt of attempt k, lines 114-145: what it is made of. *)
Prompt(opts, k) ==
    [gameMode |-> opts.gameMode,
     content |-> preprocessContent(opts.content, strategies[k].charLimit),
     questions |-> RequiredQuestions,
     theme |-> Theme(opts)]

(* What a provider may do with one request: answer after a delay with     *)
(* text that parses, text that does not parse, or no text; reject after a *)
(* delay; or never settle.                                                *)
ProviderDelays == {1000, 80000, 100000}

ProviderKinds == {"valid", "malformed", "empty", "error"}

ProviderBehaviours ==
    [kind : ProviderKinds, delay : ProviderDelays] \cup {[kind |-> "never", delay |-> 0]}

(* The error a rejecting provider promise carries. *)
ProviderError(k) == [message |-> "provider error (" \o strategies[k].label \o ")"]

(* The error a throwing onProgress raises. *)
ObserverError == [message |-> "observer threw"]

(* Text is a sequence of tokens: the two fence markers (three backticks  *)
(* with and without json), whitespace, a complete JSON object, or a       *)
(* truncated one.  A string value inside an object is a sequence of       *)
(* chunks, one of which may be the three backticks.                       *)
FenceJson == [t |-> "fence-json", v |-> <<>>]

Fence == [t |-> "fence", v |-> <<>>]

Ws == [t |-> " ", v |-> <<>>]

Truncated == [t |-> "truncated", v |-> <<>>]

JsonObject(obj) == [t |-> "object", v |-> obj]

(* Three backticks inside a string value. *)
Backticks == "fence"

StringFields == {"title", "description"}

(* A question, as far as its schema goes: options.length and correctIndex. *)
Question(len, correctIndex) == [options |-> len, correctIndex |-> correctIndex]

(* questions arrays a model may put out: as the prompt demands, one        *)
(* question short, and with a correctIndex past the options or negative.   *)
GoodQuestions == [n \in 1..RequiredQuestions |-> Question(4, (n - 1) % 4)]

QuestionLists ==
    {GoodQuestions,
     SubSeq(GoodQuestions, 1, RequiredQuestions - 1),
     [GoodQuestions EXCEPT ![1] = Question(4, 4)],
     [GoodQuestions EXCEPT ![RequiredQuestions] = Question(4, 0 - 1)]}

(* The data of a result that carries no GameData. *)
NoData == [title |-> <<>>]

(* What Math.random().toString(36).substring(2, 6).toUpperCase() yields. *)
MintedCodes == {"ABCD", "K7QZ"}

(* The two global replace calls of line 28: every occurrence of a fence  *)
(* marker goes, the ones inside the string values of an object too.       *)
StripChunks(str) == SelectSeq(str, LAMBDA c : c # Backticks)

StripObject(obj) ==
    [f \in DOMAIN obj |-> IF f \in StringFields THEN StripChunks(obj[f]) ELSE obj[f]]

StripFences(text) ==
    LET kept == SelectSeq(text, LAMBDA tok : tok.t \notin {FenceJson.t, Fence.t})
    IN  [n \in 1..Len(kept) |->
            IF kept[n].t = "object" THEN JsonObject(StripObject(kept[n].v)) ELSE kept[n]]

(* String.prototype.trim *)
RECURSIVE TrimStart(_)
TrimStart(text) ==
    IF text # <<>> /\ Head(text).t = Ws.t THEN TrimStart(Tail(text)) ELSE text

RECURSIVE TrimEnd(_)
TrimEnd(text) ==
    IF text # <<>> /\ text[Len(text)].t = Ws.t
    THEN TrimEnd(SubSeq(text, 1, Len(text) - 1))
    ELSE text

trim(text) == TrimEnd(TrimStart(text))

(* Faulty variant: a parser that takes truncated data for an empty object. *)
JSONparseLenient(cleanText) ==
    IF Len(cleanText) = 1 /\ cleanText[1].t = "object"
    THEN [ok |-> TRUE, value |-> cleanText[1].v]
    ELSE [ok |-> TRUE, value |-> [title |-> <<>>]]

(* JSON.parse: the value of exactly one complete JSON text, or a throw. *)
JSONparse(cleanText) ==
    IF Len(cleanText) = 1 /\ cleanText[1].t = "object"
    THEN [ok |-> TRUE, value |-> cleanText[1].v]
    ELSE [ok |-> FALSE, value |-> NoData]

(* Faulty variant: the spread comes last and overrides code and isEngine. *)
EnrichUnderSpread(parsed, opts, minted) ==
    parsed @@ [code |-> minted, isEngine |-> opts.gameMode = "engine"]

(* { ...parsed, code: <minted>, isEngine: options.gameMode === engine } *)
Enrich(parsed, opts, minted) ==
    [code |-> minted, isEngine |-> opts.gameMode = "engine"] @@ parsed

(* parseGameResponse: the GameData, or the invalid-format error. *)
parseGameResponse(responseText, opts, minted) ==
    LET parsed == JSONparse(trim(StripFences(responseText)))
    IN  IF parsed.ok
        THEN [ok |-> TRUE, data |-> Enrich(parsed.value, opts, minted),
              error |-> NullError]
        ELSE [ok |-> FALSE, data |-> NoData,
              error |-> [message |-> InvalidFormatMessage]]

(* response.text of the response to the request of strategy k: empty,   *)
(* or text that parses (bare, or in fences), or text that does not       *)
(* (truncated data, bare or in fences, or a lone fence).  The title of   *)
(* the answer tells which request it answers.                            *)
ValidText(k) ==
    LET obj == JsonObject([title |-> <<strategies[k].label>>,
                           description |-> <<"D">>, code |-> "EVIL",
                           questions |-> GoodQuestions])
    IN  CASE k = 0 -> <<obj>>
          [] k = 1 -> <<FenceJson, obj, Fence>>
          [] OTHER -> <<Fence, Ws, obj, Ws, Fence, Ws>>

MalformedText(k) ==
    CASE k = 0 -> <<Truncated>>
      [] k = 1 -> <<FenceJson, Truncated>>
      [] OTHER -> <<Fence>>

ResponseText(k) ==
    CASE provider[k].kind = "valid" -> ValidText(k)
      [] provider[k].kind = "malformed" -> MalformedText(k)
      [] OTHER -> <<>>

----------------------------------------------------------------------------
(* Promises and timers *)

(* Faulty variant: a promise without the settle-once guard. *)
SettleAgain(state, outcome) == outcome

(* resolve/reject of a promise: only the first settlement counts. *)
Settle(state, outcome) == IF state = "pending" THEN outcome ELSE state

(* Faulty variant: the listener forgets clearTimeout. *)
ClearTimeoutForgotten(t) == t

(* clearTimeout: cancels a timer that has not fired yet. *)
ClearTimeout(t) == IF t = "armed" THEN "cleared" ELSE t

(* Faulty variant: the timer callback does not reject. *)
TimeoutCallbackSilent(state) == state

(* The callback of withTimeout's timer: reject with the timeout error. *)
TimeoutCallback(state) == Settle(state, "timeout")

TimerDue(k) == issuedAt[k] + strategies[k].timeout

ResponseDue(k) == issuedAt[k] + provider[k].delay

(* The async function has a continuation ready to run. *)
Running ==
    \/ pc \in {"loop", "progress", "request", "check", "finalize", "parse", "catch",
               "throw"}
    \/ pc = "await" /\ wt[i] # "pending"

(* The due times of the events still to come. *)
PendingDue ==
    {TimerDue(k) : k \in {a \in StrategyIndex : timer[a] = "armed"}}
    \cup {ResponseDue(k) : k \in {a \in StrategyIndex :
                                   promise[a] = "pending" /\ provider[a].kind # "never"}}
    \cup (IF pc = "backoff" THEN {backoffDue} ELSE {})

Min(S) == CHOOSE m \in S : \A n \in S : m <= n

----------------------------------------------------------------------------
Observers == {"none", "returns"}

(* parseGameResponse is not being called on its own. *)
NoParseIn == [text |-> <<>>, options |-> [gameMode |-> "legacy"], minted |-> ""]

(* The options of the invocations that are followed attempt by attempt:   *)
(* either game mode, a document longer than every content limit, no       *)
(* preferred genre.                                                       *)
LongDocumentOptions ==
    [gameMode : {"legacy", "engine"},
     content : {Document(HIGH + 1)},
     preferredGenre : {Undefined}]

NoParseOut == [status |-> "none", data |-> NoData, message |-> ""]

(* preprocessContent is not being called on its own. *)
NoPreprocessIn == [content |-> <<>>, maxLength |-> 0]

NoPreprocessOut == [status |-> "none", text |-> <<>>]

PreprocessIdle ==
    /\ ppIn = NoPreprocessIn
    /\ ppOut = NoPreprocessOut

(* The state of an invocation that has not started. *)
PipelineIdle ==
    /\ now = 0
    /\ pc = "idle"
    /\ i = 0
    /\ calls = <<>>
    /\ issuedAt = [k \in StrategyIndex |-> -1]
    /\ promise = [k \in StrategyIndex |-> "unissued"]
    /\ timer = [k \in StrategyIndex |-> "unset"]
    /\ wt = [k \in StrategyIndex |-> "none"]
    /\ stale = {}
    /\ backoffDue = -1
    /\ progress = <<>>
    /\ thrown = NullError
    /\ lastError = NullError
    /\ warned = <<>>
    /\ result = [status |-> "pending", data |-> NoData, error |-> NullError]
    /\ settles = 0

(* How many times the user may press Generate. *)
MaxGenerations == 2

Generations == 1..MaxGenerations

NoError == "null"

NoStage == ""

InitializingMessage == "Initializing..."

(* Texts by what trim() leaves of them: nothing, or something. *)
Texts == {"", "  ", "lesson"}

IsBlank(text) == text \in {"", "  "}

(* No file is being parsed. *)
NoUpload ==
    [active |-> FALSE,
     file |-> [extension |-> "", units |-> 0, text |-> "", corrupt |-> FALSE],
     read |-> 0]

(* The CreateGame screen as mounted: useState and useRef initial values. *)
(* useState(null) of selectedOption. *)
NoOption == -1

(* The gauges of the engine mode run from EmptyGauge to FullGauge. *)
EmptyGauge == 0
FullGauge == 100

(* GamePlay is not mounted. *)
NoPlayData == [questions |-> <<>>, isEngine |-> FALSE]

(* The state of GamePlay after construction. *)
GamePlayInitial ==
    /\ phase = "lobby"
    /\ currentQuestionIndex = 0
    /\ selectedOption = NoOption
    /\ score = 0
    /\ streak = 0
    /\ engineHealth = FullGauge
    /\ engineEnergy = EmptyGauge
    /\ resultsTimers = <<>>
    /\ answersTaken = [q \in 1..Len(playData.questions) |-> 0]

(* useState(null) of gameData in App, and the game generation g delivered. *)
NoGameData == [origin |-> "null", generation |-> 0, code |-> <<>>]

GeneratedGame(g) == [origin |-> "generated", generation |-> g, code |-> <<>>]

(* useState(null) of gameStatus, and no timer of the status check. *)
NoStatus == "null"

StatusCheckDelay == 500

NoStatusTimer == [armed |-> FALSE, delay |-> StatusCheckDelay, code |-> <<>>]

(* The state of StudentJoin after construction and its first effect. *)
StudentJoinInitial ==
    /\ joinCode = <<>>
    /\ joinName = <<>>
    /\ joinError = NoError
    /\ joining = FALSE
    /\ gameStatus = NoStatus
    /\ statusTimer = NoStatusTimer
    /\ statusFor = <<>>

(* The state of CreateGame after construction. *)
CreateGameInitial ==
    /\ preferredMechanics = <<>>
    /\ avoidMechanics = <<>>
    /\ contentInput = ""
    /\ objective = ""
    /\ canGenerate = FALSE
    /\ fileName = ""
    /\ isParsing = FALSE
    /\ upload = NoUpload
    /\ loading = FALSE
    /\ progressStage = NoStage
    /\ error = NoError
    /\ isCancelled = FALSE

(* No generation was started. *)
NoGenerations ==
    /\ started = 0
    /\ gens = [g \in Generations |-> [pc |-> "unstarted", i |-> 0]]
    /\ cancelledGens = {}
    /\ shown = {}
    /\ delivered = {}
    /\ errorsShown = {}

(* App shows CreateGame, just mounted, and has no game. *)
CreateGameIdle ==
    /\ view = "create"
    /\ gameData = NoGameData
    /\ CreateGameInitial
    /\ NoGenerations
    /\ playData = NoPlayData
    /\ GamePlayInitial
    /\ StudentJoinInitial
    /\ joinTimers = {}

InitWith(obs) ==
    /\ PipelineIdle
    /\ CreateGameIdle
    /\ observer \in obs
    /\ provider \in [StrategyIndex -> ProviderBehaviours]
    /\ options \in LongDocumentOptions
    /\ parseIn = NoParseIn
    /\ parseOut = NoParseOut
    /\ PreprocessIdle

Init == InitWith(Observers)

(* generateGameFromContent is called: let lastError = null, i = 0. *)
Invoke ==
    /\ pc = "idle"
    /\ pc' = "loop"
    /\ i' = 0
    /\ UNCHANGED <<now, observer, provider, calls, issuedAt, promise, timer, wt,
                   stale, backoffDue, progress, thrown, lastError, warned, result, settles>>
    /\ UNCHANGED rest

(* for (let i = 0; i < strategies.length; i++): the loop test. *)
Loop ==
    /\ pc = "loop"
    /\ pc' = IF i < strategiesLength THEN "progress" ELSE "throw"
    /\ UNCHANGED <<now, i, observer, provider, calls, issuedAt, promise, timer, wt,
                   stale, backoffDue, progress, thrown, lastError, warned, result, settles>>
    /\ UNCHANGED rest

(* if (onProgress) onProgress(stage), inside the try block: go on to    *)
(* `next`, or to the catch clause when the observer throws.              *)
Notify(stage, next) ==
    /\ progress' = IF observer = "none" THEN progress ELSE Append(progress, stage)
    /\ IF observer = "throws"
       THEN thrown' = ObserverError /\ pc' = "catch"
       ELSE thrown' = thrown /\ pc' = next

(* Line 112: the stage of the attempt. *)
Progress ==
    /\ pc = "progress"
    /\ Notify(StageMessage(i), "request")
    /\ UNCHANGED <<now, i, observer, provider, calls, issuedAt, promise, timer, wt,
                   stale, backoffDue, lastError, warned, result, settles>>
    /\ UNCHANGED rest

(* Faulty variant: every request is built from the first strategy. *)
RequestFirstStrategy ==
    /\ pc = "request"
    /\ calls' = Append(calls, [strategy |-> i,
                               prompt |-> Prompt(options, 0),
                               charLimit |-> strategies[0].charLimit,
                               temperature |-> strategies[0].temperature,
                               timeout |-> strategies[0].timeout])
    /\ issuedAt' = [issuedAt EXCEPT ![i] = now]
    /\ promise' = [promise EXCEPT ![i] = "pending"]
    /\ timer' = [timer EXCEPT ![i] = "armed"]
    /\ wt' = [wt EXCEPT ![i] = "pending"]
    /\ pc' = "await"
    /\ UNCHANGED <<now, i, observer, provider, stale, backoffDue, progress,
                   thrown, lastError, warned, result, settles>>
    /\ UNCHANGED rest

(* Lines 114-184: build the request, ai.models.generateContent, and     *)
(* withTimeout's executor: arm the timer, attach the listeners; await.  *)
Request ==
    /\ pc = "request"
    /\ calls' = Append(calls, [strategy |-> i,
                               prompt |-> Prompt(options, i),
                               charLimit |-> strategies[i].charLimit,
                               temperature |-> strategies[i].temperature,
                               timeout |-> strategies[i].timeout])
    /\ issuedAt' = [issuedAt EXCEPT ![i] = now]
    /\ promise' = [promise EXCEPT ![i] = "pending"]
    /\ timer' = [timer EXCEPT ![i] = "armed"]
    /\ wt' = [wt EXCEPT ![i] = "pending"]
    /\ pc' = "await"
    /\ UNCHANGED <<now, i, observer, provider, stale, backoffDue, progress,
                   thrown, lastError, warned, result, settles>>
    /\ UNCHANGED rest

(* The provider's promise for strategy k settles and withTimeout's      *)
(* listener on it runs: clearTimeout, then resolve or reject.            *)
ProviderSettle(k) ==
    /\ ~Running
    /\ promise[k] = "pending"
    /\ provider[k].kind # "never"
    /\ ResponseDue(k) = now
    /\ promise' = [promise EXCEPT
                     ![k] = IF provider[k].kind = "error" THEN "rejected" ELSE "fulfilled"]
    /\ timer' = [timer EXCEPT ![k] = ClearTimeout(timer[k])]
    /\ wt' = [wt EXCEPT
                ![k] = Settle(wt[k], IF provider[k].kind = "error" THEN "error" ELSE "value")]
    /\ stale' = IF wt[k] = "pending" THEN stale
                ELSE stale \cup {[strategy |-> k, pc |-> pc, i |-> i]}
    /\ UNCHANGED <<now, pc, i, observer, provider, calls, issuedAt, backoffDue,
                   progress, thrown, lastError, warned, result, settles>>
    /\ UNCHANGED rest

(* The timer of withTimeout for strategy k fires. *)
TimerFire(k) ==
    /\ ~Running
    /\ timer[k] = "armed"
    /\ TimerDue(k) = now
    /\ timer' = [timer EXCEPT ![k] = "fired"]
    /\ wt' = [wt EXCEPT ![k] = TimeoutCallback(wt[k])]
    /\ UNCHANGED <<now, pc, i, observer, provider, calls, issuedAt, promise, stale,
                   backoffDue, progress, thrown, lastError, warned, result, settles>>
    /\ UNCHANGED rest

(* Line 180: the await on withTimeout resumes with the value or throws. *)
Resume ==
    /\ pc = "await"
    /\ wt[i] # "pending"
    /\ IF wt[i] = "value"
       THEN thrown' = thrown /\ pc' = "check"
       ELSE /\ thrown' = IF wt[i] = "timeout"
                         THEN TimeoutError(strategies[i].timeout, strategies[i].label)
                         ELSE ProviderError(i)
            /\ pc' = "catch"
    /\ UNCHANGED <<now, i, observer, provider, calls, issuedAt, promise, timer, wt,
                   stale, backoffDue, progress, lastError, warned, result, settles>>
    /\ UNCHANGED rest

(* Faulty variant: the empty response is not refused before the          *)
(* finalizing stage.                                                      *)
CheckNothing ==
    /\ pc = "check"
    /\ thrown' = thrown
    /\ pc' = "finalize"
    /\ UNCHANGED <<now, i, observer, provider, calls, issuedAt, promise, timer, wt,
                   stale, backoffDue, progress, lastError, warned, result, settles>>
    /\ UNCHANGED rest

(* Lines 186-188: if (!response.text) throw. *)
Check ==
    /\ pc = "check"
    /\ IF ResponseText(i) = <<>>
       THEN thrown' = [message |-> EmptyResponseMessage] /\ pc' = "catch"
       ELSE thrown' = thrown /\ pc' = "finalize"
    /\ UNCHANGED <<now, i, observer, provider, calls, issuedAt, promise, timer, wt,
                   stale, backoffDue, progress, lastError, warned, result, settles>>
    /\ UNCHANGED rest

(* Faulty variant: the finalizing stage is not reported. *)
FinalizeSilent ==
    /\ pc = "finalize"
    /\ pc' = "parse"
    /\ UNCHANGED <<now, i, observer, provider, calls, issuedAt, promise, timer, wt,
                   stale, backoffDue, progress, thrown, lastError, warned, result,
                   settles>>
    /\ UNCHANGED rest

(* Line 190: onProgress("Finalizing game..."). *)
Finalize ==
    /\ pc = "finalize"
    /\ Notify(FinalizingMessage, "parse")
    /\ UNCHANGED <<now, i, observer, provider, calls, issuedAt, promise, timer, wt,
                   stale, backoffDue, lastError, warned, result, settles>>
    /\ UNCHANGED rest

(* Faulty variant: the GameData is kept but the loop is not left. *)
ParseNoReturn ==
    /\ pc = "parse"
    /\ \E minted \in MintedCodes :
       LET parsed == parseGameResponse(ResponseText(i), options, minted) IN
       IF parsed.ok
       THEN /\ result' = [status |-> "resolved", data |-> parsed.data, error |-> NullError]
            /\ settles' = settles + 1
            /\ pc' = "catch"
            /\ thrown' = thrown
       ELSE /\ thrown' = parsed.error
            /\ pc' = "catch"
            /\ UNCHANGED <<result, settles>>
    /\ UNCHANGED <<now, i, observer, provider, calls, issuedAt, promise, timer, wt,
                   stale, backoffDue, progress, lastError, warned>>
    /\ UNCHANGED rest

(* Line 191: return parseGameResponse(response.text, options). *)
Parse ==
    /\ pc = "parse"
    /\ \E minted \in MintedCodes :
       LET parsed == parseGameResponse(ResponseText(i), options, minted) IN
       IF parsed.ok
       THEN /\ result' = [status |-> "resolved", data |-> parsed.data, error |-> NullError]
            /\ settles' = settles + 1
            /\ pc' = "resolved"
            /\ thrown' = thrown
       ELSE /\ thrown' = parsed.error
            /\ pc' = "catch"
            /\ UNCHANGED <<result, settles>>
    /\ UNCHANGED <<now, i, observer, provider, calls, issuedAt, promise, timer, wt,
                   stale, backoffDue, progress, lastError, warned>>
    /\ UNCHANGED rest

(* Faulty variant: the loop steps over a strategy. *)
NextIndexSkipping(k) == k + 2

(* i++ *)
NextIndex(k) == k + 1

(* Faulty variant: the backoff does not grow with the attempt index. *)
backoffMsFlat(k) == BackoffBase

(* const backoffMs = 1500 * (i + 1) *)
backoffMs(k) == BackoffBase * (k + 1)

(* Faulty variant: the catch clause rethrows a format error to the caller. *)
CatchRethrowingFormat ==
    /\ pc = "catch"
    /\ lastError' = thrown
    /\ warned' = Append(warned, [strategy |-> strategies[i].label,
                                 message |-> thrown.message])
    /\ IF thrown.message = InvalidFormatMessage
       THEN /\ result' = [status |-> "rejected", data |-> NoData, error |-> thrown]
            /\ settles' = settles + 1
            /\ pc' = "rejected"
            /\ UNCHANGED <<backoffDue, i>>
       ELSE /\ UNCHANGED <<result, settles>>
            /\ IF i < strategiesLength - 1
               THEN /\ backoffDue' = now + BackoffBase * (i + 1)
                    /\ pc' = "backoff"
                    /\ i' = i
               ELSE /\ backoffDue' = backoffDue
                    /\ pc' = "loop"
                    /\ i' = i + 1
    /\ UNCHANGED <<now, observer, provider, calls, issuedAt, promise, timer, wt,
                   stale, progress, thrown>>
    /\ UNCHANGED rest

(* Lines 193-201: the catch clause: record and log the error, and start *)
(* the backoff unless this was the last strategy.                        *)
Catch ==
    /\ pc = "catch"
    /\ lastError' = thrown
    /\ warned' = Append(warned, [strategy |-> strategies[i].label,
                                 message |-> thrown.message])
    /\ IF i < strategiesLength - 1
       THEN /\ backoffDue' = now + backoffMs(i)
            /\ pc' = "backoff"
            /\ i' = i
       ELSE /\ backoffDue' = backoffDue
            /\ pc' = "loop"
            /\ i' = NextIndex(i)
    /\ UNCHANGED <<now, observer, provider, calls, issuedAt, promise, timer, wt,
                   stale, progress, thrown, result, settles>>
    /\ UNCHANGED rest

(* The timer of delay(backoffMs) fires; the loop goes on with i++. *)
BackoffElapse ==
    /\ pc = "backoff"
    /\ backoffDue = now
    /\ backoffDue' = -1
    /\ i' = NextIndex(i)
    /\ pc' = "loop"
    /\ UNCHANGED <<now, observer, provider, calls, issuedAt, promise, timer, wt,
                   stale, progress, thrown, lastError, warned, result, settles>>
    /\ UNCHANGED rest

(* Faulty variant: the last recorded error is thrown to the caller. *)
ThrowLastError ==
    /\ pc = "throw"
    /\ result' = [status |-> "rejected", data |-> NoData, error |-> lastError]
    /\ settles' = settles + 1
    /\ pc' = "rejected"
    /\ UNCHANGED <<now, i, observer, provider, calls, issuedAt, promise, timer, wt,
                   stale, backoffDue, progress, thrown, lastError, warned>>
    /\ UNCHANGED rest

(* Line 205: all strategies failed. *)
Throw ==
    /\ pc = "throw"
    /\ result' = [status |-> "rejected", data |-> NoData,
                  error |-> [message |-> ExhaustionMessage]]
    /\ settles' = settles + 1
    /\ pc' = "rejected"
    /\ UNCHANGED <<now, i, observer, provider, calls, issuedAt, promise, timer, wt,
                   stale, backoffDue, progress, thrown, lastError, warned>>
    /\ UNCHANGED rest

(* Nothing is due: the clock moves to the next due event. *)
Advance ==
    /\ ~Running
    /\ pc # "idle"
    /\ PendingDue # {}
    /\ Min(PendingDue) > now
    /\ now' = Min(PendingDue)
    /\ UNCHANGED <<pc, i, observer, provider, calls, issuedAt, promise, timer, wt,
                   stale, backoffDue, progress, thrown, lastError, warned, result, settles>>
    /\ UNCHANGED rest

Next ==
    \/ Invoke
    \/ Loop
    \/ Progress
    \/ Request
    \/ \E k \in StrategyIndex : ProviderSettle(k)
    \/ \E k \in StrategyIndex : TimerFire(k)
    \/ Resume
    \/ Check
    \/ Finalize
    \/ Parse
    \/ Catch
    \/ BackoffElapse
    \/ Throw
    \/ Advance

Spec == Init /\ [][Next]_vars

(* The event loop keeps running: a continuation that is ready runs, a   *)
(* timer that is due fires, the clock moves on to the next due event,    *)
(* and a provider answers when its delay has passed (if it answers).     *)
InitLive ==
    /\ InitWith({"returns"})
    /\ options.gameMode = "engine"

SpecLive == InitLive /\ [][Next]_vars /\ WF_vars(Next)

(* The observer may be any function, one that throws included. *)
InitObserver == InitWith(Observers \cup {"throws"})

SpecObserver == InitObserver /\ [][Next]_vars

----------------------------------------------------------------------------
(* Invocations over the options a caller may pass: documents shorter than *)
(* every content limit, between two limits and longer than all of them,   *)
(* with and without a preferred genre, against providers that answer      *)
(* soon, answer after the timeout, or never answer.                       *)
PromptContents ==
    {Document(LOW - 1), Document(MEDIUM), Document(HIGH + 1),
     Document(HIGH + HIGH + HIGH + 1)}

PromptOptions ==
    [gameMode : {"legacy", "engine"},
     content : PromptContents,
     preferredGenre : {Undefined, "", "racing"}]

PromptBehaviours ==
    {b \in ProviderBehaviours :
        b.kind = "never" \/ b.delay = 1000 \/ (b.kind = "valid" /\ b.delay = 100000)}

InitPrompt ==
    /\ PipelineIdle
    /\ CreateGameIdle
    /\ observer = "returns"
    /\ provider \in [StrategyIndex -> PromptBehaviours]
    /\ options \in PromptOptions
    /\ parseIn = NoParseIn
    /\ parseOut = NoParseOut
    /\ PreprocessIdle

SpecPrompt == InitPrompt /\ [][Next]_vars

----------------------------------------------------------------------------
(* parseGameResponse on its own, over texts, options and minted codes. *)

ParseTitles == {<<"T">>, <<"Use ", Backticks, " fences">>}

SuppliedCodes == {"ABCD", "EVIL"}

BaseObjects == [title : ParseTitles, description : {<<"D">>}]

QuestionObjects ==
    BaseObjects \cup {[questions |-> qs] @@ o : o \in BaseObjects, qs \in QuestionLists}

CodedObjects ==
    QuestionObjects \cup {[code |-> c] @@ o : o \in QuestionObjects, c \in SuppliedCodes}

ParseObjects == CodedObjects \cup {[isEngine |-> b] @@ o : o \in CodedObjects, b \in BOOLEAN}

ParseBodies == {<<JsonObject(o)>> : o \in ParseObjects} \cup {<<Truncated>>, <<>>}

ParsePrefixes == {<<>>, <<FenceJson>>, <<Fence>>, <<Ws, FenceJson, Ws>>}

ParseSuffixes == {<<>>, <<Fence>>, <<Ws, Fence, Ws>>}

ParseTexts ==
    {pre \o body \o suf : pre \in ParsePrefixes, body \in ParseBodies, suf \in ParseSuffixes}

InitParse ==
    /\ PipelineIdle
    /\ CreateGameIdle
    /\ observer = "none"
    /\ provider = [k \in StrategyIndex |-> [kind |-> "never", delay |-> 0]]
    /\ options = NoParseIn.options
    /\ parseIn \in [text : ParseTexts,
                     options : [gameMode : {"legacy", "engine"}],
                     minted : MintedCodes]
    /\ parseOut = NoParseOut
    /\ PreprocessIdle

(* parseGameResponse(responseText, options) returns or throws. *)
CallParse ==
    /\ parseOut.status = "none"
    /\ parseIn # NoParseIn
    /\ LET out == parseGameResponse(parseIn.text, parseIn.options, parseIn.minted) IN
       parseOut' = IF out.ok
                   THEN [status |-> "returned", data |-> out.data, message |-> ""]
                   ELSE [status |-> "threw", data |-> NoData, message |-> out.error.message]
    /\ UNCHANGED <<pipeVars, options, parseIn, ppIn, ppOut, cgVars, uploadVars, otherScreens>>

NextParse == CallParse

SpecParse == InitParse /\ [][NextParse]_vars

----------------------------------------------------------------------------
(* preprocessContent on its own, over document lengths and budgets: the   *)
(* small ones, and those around the three content limits of the ladder.   *)

MaxContentLength == 10

MaxBudget == 8

ContentLengths ==
    (0..MaxContentLength)
        \cup {LOW - 1, LOW, LOW + 1, MEDIUM + 1, HIGH, HIGH + 1, HIGH + HIGH + HIGH + 1}

Budgets == (0..MaxBudget) \cup {LOW, MEDIUM, HIGH}

InitPreprocess ==
    /\ PipelineIdle
    /\ CreateGameIdle
    /\ observer = "none"
    /\ provider = [k \in StrategyIndex |-> [kind |-> "never", delay |-> 0]]
    /\ options = NoParseIn.options
    /\ parseIn = NoParseIn
    /\ parseOut = NoParseOut
    /\ ppIn \in {[content |-> Document(len), maxLength |-> m] :
                    len \in ContentLengths, m \in Budgets}
    /\ ppOut = NoPreprocessOut

(* preprocessContent(content, maxLength) returns. *)
CallPreprocess ==
    /\ ppOut.status = "none"
    /\ ppOut' = [status |-> "returned",
                 text |-> preprocessContent(ppIn.content, ppIn.maxLength)]
    /\ UNCHANGED <<pipeVars, options, parseIn, parseOut, ppIn, cgVars, uploadVars, otherScreens>>

NextPreprocess == CallPreprocess

SpecPreprocess == InitPreprocess /\ [][NextPreprocess]_vars

----------------------------------------------------------------------------
(* The CreateGame component: the user presses Generate and Cancel while   *)
(* the generations it started run on.  A generation is one call of        *)
(* generateGameFromContent, followed here attempt by attempt: each        *)
(* attempt is rejected, or answered with a text that parses or does not.  *)

(* What the handlers read and write, as one record. *)
Screen ==
    [view |-> view, gameData |-> gameData, loading |-> loading,
     progressStage |-> progressStage, error |-> error, isCancelled |-> isCancelled,
     shown |-> shown, delivered |-> delivered, errorsShown |-> errorsShown]

Commit(s) ==
    /\ view' = s.view
    /\ gameData' = s.gameData
    /\ loading' = s.loading
    /\ progressStage' = s.progressStage
    /\ error' = s.error
    /\ isCancelled' = s.isCancelled
    /\ shown' = s.shown
    /\ delivered' = s.delivered
    /\ errorsShown' = s.errorsShown

(* A call by generation g, and whether the user had cancelled g before. *)
CallBy(g) == [gen |-> g, cancelled |-> g \in cancelledGens]

(* (stage) => { if (!isCancelled.current) setProgressStage(stage) } *)
progressCallback(s, g, stage) ==
    IF s.isCancelled THEN s
    ELSE [s EXCEPT !.progressStage = stage,
                   !.shown = @ \cup {CallBy(g)}]

(* setLoading(false); setProgressStage("") unless isCancelled.current *)
finally(s) ==
    IF s.isCancelled THEN s
    ELSE [s EXCEPT !.loading = FALSE, !.progressStage = NoStage]

(* handleGenerate after the await, generation g resolved: onGameGenerated, *)
(* which is handleGameGenerated of App, then the finally clause.           *)
continueResolved(s, g) ==
    finally(IF s.isCancelled THEN s
            ELSE [s EXCEPT !.delivered = @ \cup {CallBy(g)},
                           !.gameData = GeneratedGame(g),
                           !.view = "host"])

(* handleGenerate after the await, generation g rejected: the catch clause *)
(* and the finally clause.  The only error the call rejects with is the    *)
(* exhaustion error, whose message is not empty.                           *)
continueRejected(s, g) ==
    finally(IF s.isCancelled THEN s
            ELSE [s EXCEPT !.errorsShown = @ \cup {CallBy(g)},
                           !.error = ExhaustionMessage])

(* The catch clause of the strategy loop, reached by generation g in       *)
(* screen state s: back off before the next strategy, or leave the loop    *)
(* and throw.                                                              *)
attemptFailed(s, g) ==
    IF gens[g].i < strategiesLength - 1
    THEN /\ gens' = [gens EXCEPT ![g].pc = "backoff"]
         /\ Commit(s)
    ELSE /\ gens' = [gens EXCEPT ![g].pc = "settled"]
         /\ Commit(continueRejected(s, g))

(* The text area, disabled while isParsing || loading. *)
setContent ==
    /\ view = "create"
    /\ ~isParsing
    /\ ~loading
    /\ \E text \in Texts \ {contentInput} :
          /\ contentInput' = text
          /\ canGenerate' = (~IsBlank(text) /\ ~IsBlank(objective))
    /\ UNCHANGED <<view, gameData, loading, progressStage, error, isCancelled,
                   started, gens, cancelledGens, shown, delivered, errorsShown>>
    /\ UNCHANGED <<objective, fileName, isParsing, upload>>
    /\ UNCHANGED <<pipeVars, options, otherScreens, pureVars>>

(* The objective input, disabled while loading. *)
setObjective ==
    /\ view = "create"
    /\ ~loading
    /\ \E text \in {"", "goal"} \ {objective} :
          /\ objective' = text
          /\ canGenerate' = (~IsBlank(contentInput) /\ ~IsBlank(text))
    /\ UNCHANGED <<view, gameData, loading, progressStage, error, isCancelled,
                   started, gens, cancelledGens, shown, delivered, errorsShown>>
    /\ UNCHANGED <<contentInput, fileName, isParsing, upload>>
    /\ UNCHANGED <<pipeVars, options, otherScreens, pureVars>>

(* The Generate button, disabled={!canGenerate || loading || isParsing}.   *)
(* The call                                                               *)
(* of generateGameFromContent runs to its first await within the handler,  *)
(* so the stage of the first attempt is emitted here.                      *)
handleGenerate ==
    /\ view = "create"
    /\ canGenerate
    /\ ~loading
    /\ ~isParsing
    /\ started < MaxGenerations
    /\ LET g == started + 1
           s == [Screen EXCEPT !.loading = TRUE,
                               !.progressStage = InitializingMessage,
                               !.error = NoError,
                               !.isCancelled = FALSE]
       IN  /\ started' = g
           /\ gens' = [gens EXCEPT ![g] = [pc |-> "await", i |-> 0]]
           /\ Commit(progressCallback(s, g, StageMessage(0)))
    /\ UNCHANGED <<canGenerate, cancelledGens>>
    /\ UNCHANGED <<pipeVars, options, otherScreens, pureVars, uploadVars>>

(* Faulty variant: cancelling also aborts the generation in flight. *)
cancelGenerationAborting ==
    /\ view = "create"
    /\ loading
    /\ cancelledGens' = cancelledGens \cup {started}
    /\ gens' = [gens EXCEPT ![started].pc = "settled"]
    /\ Commit([Screen EXCEPT !.isCancelled = TRUE,
                             !.loading = FALSE,
                             !.progressStage = NoStage,
                             !.error = NoError])
    /\ UNCHANGED <<canGenerate, started>>
    /\ UNCHANGED <<pipeVars, options, otherScreens, pureVars, uploadVars>>

(* The Cancel Generation button, rendered while loading.  It cancels the   *)
(* generation the screen is showing, which is the last one started.        *)
cancelGeneration ==
    /\ view = "create"
    /\ loading
    /\ cancelledGens' = cancelledGens \cup {started}
    /\ Commit([Screen EXCEPT !.isCancelled = TRUE,
                             !.loading = FALSE,
                             !.progressStage = NoStage,
                             !.error = NoError])
    /\ UNCHANGED <<canGenerate, started, gens>>
    /\ UNCHANGED <<pipeVars, options, otherScreens, pureVars, uploadVars>>

(* The attempt of generation g fails before the finalizing stage: the      *)
(* provider rejects, the timeout fires, or the response is empty.          *)
AttemptRejected(g) ==
    /\ gens[g].pc = "await"
    /\ attemptFailed(Screen, g)
    /\ UNCHANGED <<canGenerate, started, cancelledGens>>
    /\ UNCHANGED <<pipeVars, options, otherScreens, pureVars, uploadVars>>

(* The attempt of generation g is answered with a text: the finalizing     *)
(* stage is emitted, then parseGameResponse returns or throws.             *)
AttemptAnswered(g) ==
    /\ gens[g].pc = "await"
    /\ LET s == progressCallback(Screen, g, FinalizingMessage) IN
       \E parses \in BOOLEAN :
          IF parses
          THEN /\ gens' = [gens EXCEPT ![g].pc = "settled"]
               /\ Commit(continueResolved(s, g))
          ELSE attemptFailed(s, g)
    /\ UNCHANGED <<canGenerate, started, cancelledGens>>
    /\ UNCHANGED <<pipeVars, options, otherScreens, pureVars, uploadVars>>

(* The backoff of generation g is over: the next attempt starts and emits  *)
(* its stage.                                                              *)
RetryNextStrategy(g) ==
    /\ gens[g].pc = "backoff"
    /\ gens' = [gens EXCEPT ![g] = [pc |-> "await", i |-> NextIndex(gens[g].i)]]
    /\ Commit(progressCallback(Screen, g, StageMessage(NextIndex(gens[g].i))))
    /\ UNCHANGED <<canGenerate, started, cancelledGens>>
    /\ UNCHANGED <<pipeVars, options, otherScreens, pureVars, uploadVars>>

(* The ids of MECHANICS. *)
Mechanics == {"economy", "combat", "movement", "timer"}

(* list.includes(mechanicId) *)
includes(list, mechanicId) == \E n \in 1..Len(list) : list[n] = mechanicId

(* list.filter(m => m !== mechanicId) *)
without(list, mechanicId) == SelectSeq(list, LAMBDA m : m # mechanicId)

(* Faulty variant: adding to one list leaves the other list alone. *)
toggleMechanicOneList(mechanicId, list) ==
    /\ view = "create"
    /\ IF list = "preferred"
       THEN /\ preferredMechanics' =
                  IF includes(preferredMechanics, mechanicId)
                  THEN without(preferredMechanics, mechanicId)
                  ELSE Append(preferredMechanics, mechanicId)
            /\ avoidMechanics' = avoidMechanics
       ELSE /\ avoidMechanics' =
                  IF includes(avoidMechanics, mechanicId)
                  THEN without(avoidMechanics, mechanicId)
                  ELSE Append(avoidMechanics, mechanicId)
            /\ preferredMechanics' = preferredMechanics
    /\ UNCHANGED <<pipeVars, options, pureVars, cgVars, uploadVars, gamePlayVars,
                   joinVars>>

(* toggleMechanic(mechanicId, list), from the Include and Avoid buttons. *)
toggleMechanic(mechanicId, list) ==
    /\ view = "create"
    /\ IF list = "preferred"
       THEN IF includes(preferredMechanics, mechanicId)
            THEN /\ preferredMechanics' = without(preferredMechanics, mechanicId)
                 /\ avoidMechanics' = avoidMechanics
            ELSE /\ preferredMechanics' = Append(preferredMechanics, mechanicId)
                 /\ avoidMechanics' = without(avoidMechanics, mechanicId)
       ELSE IF includes(avoidMechanics, mechanicId)
            THEN /\ avoidMechanics' = without(avoidMechanics, mechanicId)
                 /\ preferredMechanics' = preferredMechanics
            ELSE /\ avoidMechanics' = Append(avoidMechanics, mechanicId)
                 /\ preferredMechanics' = without(preferredMechanics, mechanicId)
    /\ UNCHANGED <<pipeVars, options, pureVars, cgVars, uploadVars, gamePlayVars,
                   joinVars>>

NextMechanics ==
    \E mechanicId \in Mechanics, list \in {"preferred", "avoid"} :
        toggleMechanic(mechanicId, list)

(* The files a user may pick.  A file is its extension, the pages or      *)
(* slides it has (units), the text each of them holds (for txt and docx   *)
(* the text of the file), and whether the library reading it throws.      *)
MaxPages == 3

PagedExtensions == {"pdf", "pptx"}

Files ==
    {[extension |-> "exe", units |-> 0, text |-> "", corrupt |-> FALSE]}
    \cup [extension : {"txt"}, units : {0}, text : Texts, corrupt : {FALSE}]
    \cup [extension : {"txt", "docx"}, units : {0}, text : {"lesson"}, corrupt : BOOLEAN]
    \cup [extension : {"pdf"}, units : 1..MaxPages, text : {"lesson"}, corrupt : {FALSE}]
    \cup [extension : {"pptx"}, units : 0..MaxPages, text : {"lesson"}, corrupt : {FALSE}]
    \cup [extension : PagedExtensions, units : {1}, text : {"", "lesson"}, corrupt : BOOLEAN]

(* What parseFile(file) returns or throws once it has read the file:      *)
(* parsePdf ends every page with two newlines, parsePptx skips a slide    *)
(* whose text is blank.                                                   *)
parseFile(file) ==
    CASE file.extension = "txt" ->
           IF file.corrupt
           THEN [ok |-> FALSE, text |-> "", message |-> "Failed to read text file"]
           ELSE [ok |-> TRUE, text |-> file.text, message |-> ""]
      [] file.extension = "pdf" ->
           IF file.corrupt
           THEN [ok |-> FALSE, text |-> "", message |-> "PDF Error: Invalid PDF structure"]
           ELSE [ok |-> TRUE, text |-> IF IsBlank(file.text) THEN "  " ELSE file.text,
                 message |-> ""]
      [] file.extension = "docx" ->
           IF file.corrupt
           THEN [ok |-> FALSE, text |-> "", message |-> "Could not parse DOCX file."]
           ELSE [ok |-> TRUE, text |-> file.text, message |-> ""]
      [] file.extension = "pptx" ->
           IF file.corrupt
           THEN [ok |-> FALSE, text |-> "", message |-> "Could not parse PowerPoint file."]
           ELSE [ok |-> TRUE,
                 text |-> IF file.units = 0 \/ IsBlank(file.text) THEN "" ELSE file.text,
                 message |-> ""]
      [] OTHER ->
           [ok |-> FALSE, text |-> "",
            message |-> "Unsupported file type: ." \o file.extension]

NoTextMessage ==
    "Could not extract any text from this file. It might be empty or scanned images."

(* Faulty variant: the content of before the upload is kept. *)
handleFileUploadKeepingContent(file) ==
    /\ view = "create"
    /\ ~isParsing
    /\ ~loading
    /\ fileName' = file.extension
    /\ isParsing' = TRUE
    /\ error' = NoError
    /\ upload' = [active |-> TRUE, file |-> file, read |-> 0]
    /\ UNCHANGED <<view, gameData, loading, progressStage, isCancelled, objective,
                   started, gens, cancelledGens, shown, delivered, errorsShown>>
    /\ UNCHANGED <<contentInput, canGenerate>>
    /\ UNCHANGED <<pipeVars, options, otherScreens, pureVars>>

(* handleFileUpload up to its await: the file input is rendered unless    *)
(* isParsing and disabled while loading.  The file is named by its        *)
(* extension.                                                             *)
handleFileUpload(file) ==
    /\ view = "create"
    /\ ~isParsing
    /\ ~loading
    /\ fileName' = file.extension
    /\ isParsing' = TRUE
    /\ error' = NoError
    /\ contentInput' = ""
    /\ canGenerate' = FALSE
    /\ upload' = [active |-> TRUE, file |-> file, read |-> 0]
    /\ UNCHANGED <<view, gameData, loading, progressStage, isCancelled, objective,
                   started, gens, cancelledGens, shown, delivered, errorsShown>>
    /\ UNCHANGED <<pipeVars, options, otherScreens, pureVars>>

(* parsePdf reads the next page, parsePptx the next slide: the loops of   *)
(* lines 57-64 and 107-124.                                               *)
ReadUnit ==
    /\ upload.active
    /\ upload.file.extension \in PagedExtensions
    /\ ~upload.file.corrupt
    /\ upload.read < upload.file.units
    /\ upload' = [upload EXCEPT !.read = @ + 1]
    /\ UNCHANGED <<contentInput, objective, fileName, isParsing>>
    /\ UNCHANGED <<pipeVars, options, otherScreens, pureVars, cgVars>>

(* parseFile has settled: the rest of handleFileUpload, lines 113-127. *)
FileParsed ==
    /\ upload.active
    /\ \/ upload.file.extension \notin PagedExtensions
       \/ upload.file.corrupt
       \/ upload.read = upload.file.units
    /\ LET parsed == parseFile(upload.file) IN
       IF parsed.ok /\ ~IsBlank(parsed.text)
       THEN /\ contentInput' = parsed.text
            /\ canGenerate' = ~IsBlank(objective)
            /\ UNCHANGED <<error, fileName>>
       ELSE /\ error' = IF parsed.ok THEN NoTextMessage ELSE parsed.message
            /\ fileName' = ""
            /\ UNCHANGED <<contentInput, canGenerate>>
    /\ isParsing' = FALSE
    /\ upload' = NoUpload
    /\ UNCHANGED <<view, gameData, loading, progressStage, isCancelled, objective,
                   started, gens, cancelledGens, shown, delivered, errorsShown>>
    /\ UNCHANGED <<pipeVars, options, otherScreens, pureVars>>

(* No call of the service is followed step by step. *)
ServiceIdle ==
    /\ PipelineIdle
    /\ observer = "returns"
    /\ provider = [k \in StrategyIndex |-> [kind |-> "never", delay |-> 0]]
    /\ options = NoParseIn.options
    /\ parseIn = NoParseIn
    /\ parseOut = NoParseOut
    /\ PreprocessIdle

InitCreateGame ==
    /\ ServiceIdle
    /\ CreateGameIdle

NextCreateGame ==
    \/ setContent
    \/ setObjective
    \/ handleGenerate
    \/ cancelGeneration
    \/ \E g \in Generations : AttemptRejected(g)
    \/ \E g \in Generations : AttemptAnswered(g)
    \/ \E g \in Generations : RetryNextStrategy(g)

SpecCreateGame == InitCreateGame /\ [][NextCreateGame]_vars

(* The same screen with the mechanic buttons in use. *)
SpecMechanics == InitCreateGame /\ [][NextMechanics]_vars

(* ---------------------------------------------------------------------- *)
(* GamePlay.                                                              *)
(* ---------------------------------------------------------------------- *)

(* The games of the model have 1..MaxQuestions questions of MaxOptions     *)
(* options each: a question is its correctIndex.                          *)
MaxQuestions == 5

MaxOptions == 2

OptionIndices == 0..(MaxOptions - 1)

PlayGames ==
    [questions : UNION {[1..n -> OptionIndices] : n \in 1..MaxQuestions},
     isEngine : BOOLEAN]

(* gameData.questions[currentQuestionIndex], as its correctIndex *)
currentQuestion == playData.questions[currentQuestionIndex + 1]

(* Faulty variant: the last question is recognised one question late. *)
isLastQuestionLate == currentQuestionIndex >= Len(playData.questions)

isLastQuestion == currentQuestionIndex >= Len(playData.questions) - 1

BaseScore == 100

StreakBonus == 10

EnergyGain == 25

HealthLoss == 15

(* The delay of the timer that shows the results. *)
ResultsDelay == 1000

(* setTimeout(() => { setPhase("results") }, 1000) *)
ResultsTimer == [delay |-> ResultsDelay, phase |-> "results"]

(* Math.min, Math.max *)
mathMin(a, b) == IF a <= b THEN a ELSE b

mathMax(a, b) == IF a >= b THEN a ELSE b

(* Faulty variant: the energy gauge is not capped. *)
gainEnergyUncapped(e) == e + EnergyGain

(* e => Math.min(e + 25, 100) *)
gainEnergy(e) == mathMin(e + EnergyGain, FullGauge)

(* h => Math.max(h - 15, 0) *)
loseHealth(h) == mathMax(h - HealthLoss, EmptyGauge)

notGamePlay == <<pipeVars, options, pureVars, cgVars, uploadVars, hintVars,
                 joinVars>>

(* handleStart, from the Start Game button of the lobby. *)
handleStart ==
    /\ view = "play"
    /\ phase = "lobby"
    /\ phase' = "question"
    /\ UNCHANGED <<playData, currentQuestionIndex, selectedOption, score, streak,
                   engineHealth, engineEnergy, resultsTimers, answersTaken>>
    /\ UNCHANGED notGamePlay

(* Faulty variant: the option buttons also answer while submitted. *)
handleAnswerWhileSubmitted(index) ==
    /\ view = "play"
    /\ phase \in {"question", "submitted"}
    /\ selectedOption' = index
    /\ phase' = "submitted"
    /\ IF index = currentQuestion
       THEN /\ score' = score + BaseScore + (streak * StreakBonus)
            /\ streak' = streak + 1
            /\ engineEnergy' = IF playData.isEngine THEN gainEnergy(engineEnergy)
                                ELSE engineEnergy
            /\ engineHealth' = engineHealth
       ELSE /\ score' = score
            /\ streak' = 0
            /\ engineHealth' = IF playData.isEngine THEN loseHealth(engineHealth)
                                ELSE engineHealth
            /\ engineEnergy' = engineEnergy
    /\ resultsTimers' = Append(resultsTimers, ResultsTimer)
    /\ answersTaken' = [answersTaken EXCEPT ![currentQuestionIndex + 1] = @ + 1]
    /\ UNCHANGED <<playData, currentQuestionIndex>>
    /\ UNCHANGED notGamePlay

(* handleAnswer(index), from an option button: the buttons show in the     *)
(* phases question and submitted and are disabled in submitted; the        *)
(* handler returns at once in any phase but question.                      *)
handleAnswer(index) ==
    /\ view = "play"
    /\ phase = "question"
    /\ selectedOption' = index
    /\ phase' = "submitted"
    /\ IF index = currentQuestion
       THEN /\ score' = score + BaseScore + (streak * StreakBonus)
            /\ streak' = streak + 1
            /\ engineEnergy' = IF playData.isEngine THEN gainEnergy(engineEnergy)
                                ELSE engineEnergy
            /\ engineHealth' = engineHealth
       ELSE /\ score' = score
            /\ streak' = 0
            /\ engineHealth' = IF playData.isEngine THEN loseHealth(engineHealth)
                                ELSE engineHealth
            /\ engineEnergy' = engineEnergy
    /\ resultsTimers' = Append(resultsTimers, ResultsTimer)
    /\ answersTaken' = [answersTaken EXCEPT ![currentQuestionIndex + 1] = @ + 1]
    /\ UNCHANGED <<playData, currentQuestionIndex>>
    /\ UNCHANGED notGamePlay

(* The callback of the oldest timer of handleAnswer runs: the timers have  *)
(* one delay, so they run in the order they were set.                     *)
ShowResults ==
    /\ view = "play"
    /\ resultsTimers # <<>>
    /\ resultsTimers' = Tail(resultsTimers)
    /\ phase' = Head(resultsTimers).phase
    /\ UNCHANGED <<playData, currentQuestionIndex, selectedOption, score, streak,
                   engineHealth, engineEnergy, answersTaken>>
    /\ UNCHANGED notGamePlay

(* handleNextQuestion, from the button of the results card. *)
handleNextQuestion ==
    /\ view = "play"
    /\ phase = "results"
    /\ IF isLastQuestion
       THEN /\ phase' = "complete"
            /\ UNCHANGED <<currentQuestionIndex, selectedOption>>
       ELSE /\ currentQuestionIndex' = currentQuestionIndex + 1
            /\ selectedOption' = NoOption
            /\ phase' = "question"
    /\ UNCHANGED <<playData, score, streak, engineHealth, engineEnergy,
                   resultsTimers, answersTaken>>
    /\ UNCHANGED notGamePlay

(* Generation 1 of an earlier CreateGame delivered its game. *)
OneGenerationDelivered ==
    /\ started = 1
    /\ gens = [g \in Generations |->
                 IF g = 1 THEN [pc |-> "settled", i |-> 0]
                 ELSE [pc |-> "unstarted", i |-> 0]]
    /\ cancelledGens = {}
    /\ shown = {[gen |-> 1, cancelled |-> FALSE]}
    /\ delivered = {[gen |-> 1, cancelled |-> FALSE]}
    /\ errorsShown = {}

(* GamePlay just mounted with a generated game, which is any of the games. *)
InitGamePlay ==
    /\ ServiceIdle
    /\ view = "play"
    /\ gameData = GeneratedGame(1)
    /\ CreateGameInitial
    /\ OneGenerationDelivered
    /\ playData \in PlayGames
    /\ GamePlayInitial
    /\ StudentJoinInitial
    /\ joinTimers = {}

NextGamePlay ==
    \/ handleStart
    \/ \E index \in OptionIndices : handleAnswer(index)
    \/ ShowResults
    \/ handleNextQuestion

SpecGamePlay == InitGamePlay /\ [][NextGamePlay]_vars

(* ---------------------------------------------------------------------- *)
(* StudentJoin.  A code and a name are sequences of characters.           *)
(* ---------------------------------------------------------------------- *)

UpperLetters ==
    <<"A", "B", "C", "D", "E", "F", "G", "H", "I", "J", "K", "L", "M",
      "N", "O", "P", "Q", "R", "S", "T", "U", "V", "W", "X", "Y", "Z">>

LowerLetters ==
    <<"a", "b", "c", "d", "e", "f", "g", "h", "i", "j", "k", "l", "m",
      "n", "o", "p", "q", "r", "s", "t", "u", "v", "w", "x", "y", "z">>

DigitChars == {"0", "1", "2", "3", "4", "5", "6", "7", "8", "9"}

LetterIndex == DOMAIN UpperLetters

(* String.prototype.toUpperCase and toLowerCase, character by character *)
upperCase(text) ==
    [n \in 1..Len(text) |->
        IF \E l \in LetterIndex : LowerLetters[l] = text[n]
        THEN UpperLetters[CHOOSE l \in LetterIndex : LowerLetters[l] = text[n]]
        ELSE text[n]]

lowerCase(text) ==
    [n \in 1..Len(text) |->
        IF \E l \in LetterIndex : UpperLetters[l] = text[n]
        THEN LowerLetters[CHOOSE l \in LetterIndex : UpperLetters[l] = text[n]]
        ELSE text[n]]

(* replace(/[^A-Z0-9]/g, "") *)
onlyCodeChars(text) ==
    SelectSeq(text, LAMBDA ch : \/ \E l \in LetterIndex : UpperLetters[l] = ch
                                \/ ch \in DigitChars)

CodeLength == 6

(* slice(0, 6) *)
firstSix(text) == SubSeq(text, 1, mathMin(Len(text), CodeLength))

(* e.target.value.toUpperCase().replace(/[^A-Z0-9]/g, "").slice(0, 6) *)
enteredCode(value) == firstSix(onlyCodeChars(upperCase(value)))

(* name.trim() *)
RECURSIVE trimName(_)
trimName(text) ==
    IF text # <<>> /\ Head(text) = " " THEN trimName(Tail(text))
    ELSE IF text # <<>> /\ text[Len(text)] = " "
         THEN trimName(SubSeq(text, 1, Len(text) - 1))
         ELSE text

(* The codes with a mock scenario of their own. *)
FULL00 == <<"F", "U", "L", "L", "0", "0">>

LIVE00 == <<"L", "I", "V", "E", "0", "0">>

WIFI00 == <<"W", "I", "F", "I", "0", "0">>

BAD000 == <<"B", "A", "D", "0", "0", "0">>

(* The status the mock check of the effect computes for a code. *)
statusOf(code) ==
    CASE code = FULL00 -> "full"
      [] code = LIVE00 -> "started"
      [] code = WIFI00 -> "error"
      [] code = BAD000 -> "not_found"
      [] OTHER -> "found"

(* The values the code input is given, and the names typed. *)
TypedCodes ==
    {<<>>,
     <<"a", "b", "c", "1", "2">>,
     <<"a", "b", "c", "-", "1", "2", "3">>,
     <<"X", "Y", "Z", "7", "8", "9", "0">>,
     <<"f", "u", "l", "l", "0", "0">>,
     LIVE00, WIFI00, BAD000}

TypedNames ==
    {<<>>, <<" ", " ">>, <<"A", "n", "a", " ">>, <<"E", "r", "r", "o", "r">>}

JoinErrorMessage == "Connection timed out. Please check your internet."

JoinDelay == 1000

(* MOCK_JOIN_GAME with the entered code *)
MockGame(code) == [origin |-> "mock", generation |-> 0, code |-> code]

canJoin ==
    /\ Len(joinCode) = CodeLength
    /\ Len(trimName(joinName)) > 0
    /\ gameStatus = "found"

notJoin == <<pipeVars, options, pureVars, uploadVars, hintVars, gamePlayVars>>

cgButApp == <<canGenerate, loading, progressStage, error, isCancelled, started,
              gens, cancelledGens, shown, delivered, errorsShown>>

(* The effect of [code], after a render with a new code: the cleanup of    *)
(* the previous effect clears its timer; a code of 6 characters gets a     *)
(* timer of its own, any other code resets gameStatus.                     *)
codeEffect(code) ==
    IF Len(code) = CodeLength
    THEN /\ statusTimer' = [armed |-> TRUE, delay |-> StatusCheckDelay,
                            code |-> code]
         /\ UNCHANGED <<gameStatus, statusFor>>
    ELSE /\ statusTimer' = NoStatusTimer
         /\ gameStatus' = NoStatus
         /\ statusFor' = <<>>

(* The timer of the status check that was due before the timers of       *)
(* handleJoin has run or was cleared.                                     *)
checkOver(timers) == {[t EXCEPT !.afterCheck = FALSE] : t \in timers}

(* onChange of the code input, with the effect that follows the render. *)
setCode(value) ==
    /\ view = "join"
    /\ enteredCode(value) # joinCode
    /\ joinCode' = enteredCode(value)
    /\ codeEffect(enteredCode(value))
    /\ joinTimers' = checkOver(joinTimers)
    /\ UNCHANGED <<joinName, joinError, joining>>
    /\ UNCHANGED <<notJoin, cgVars>>

(* onChange of the name input. *)
setName(value) ==
    /\ view = "join"
    /\ value # joinName
    /\ joinName' = value
    /\ UNCHANGED <<joinCode, joinError, joining, gameStatus, statusTimer, statusFor,
                   joinTimers>>
    /\ UNCHANGED <<notJoin, cgVars>>

(* The timer of the effect runs, StatusCheckDelay ms after the render. *)
StatusChecked ==
    /\ view = "join"
    /\ statusTimer.armed
    /\ gameStatus' = statusOf(statusTimer.code)
    /\ statusFor' = statusTimer.code
    /\ statusTimer' = NoStatusTimer
    /\ joinTimers' = checkOver(joinTimers)
    /\ UNCHANGED <<joinCode, joinName, joinError, joining>>
    /\ UNCHANGED <<notJoin, cgVars>>

MaxJoinTimers == 2

(* handleJoin, from the Join button, disabled while !canJoin || joining.   *)
(* Its timer keeps the code, the name and the onJoin of this render.       *)
handleJoin ==
    /\ view = "join"
    /\ canJoin
    /\ ~joining
    /\ Cardinality(joinTimers) < MaxJoinTimers
    /\ joining' = TRUE
    /\ joinError' = NoError
    /\ joinTimers' = joinTimers \cup
          {[delay |-> JoinDelay, code |-> joinCode, name |-> joinName,
            gameData |-> gameData, statusFor |-> statusFor,
            afterCheck |-> statusTimer.armed, orphan |-> FALSE]}
    /\ UNCHANGED <<joinCode, joinName, gameStatus, statusTimer, statusFor>>
    /\ UNCHANGED <<notJoin, cgVars>>

(* The setters of a timer of handleJoin reach the StudentJoin that set it, *)
(* if it is still mounted.                                                *)
Reaches(t) == view = "join" /\ ~t.orphan

(* The timer t of handleJoin runs, JoinDelay ms after the click and so     *)
(* after a status check that was pending at the click: the name            *)
(* error ends in the error card, any other name in onJoin(code, name),     *)
(* which is the handleStudentJoin of the render of App that t kept.        *)
JoinTimerRuns(t) ==
    /\ t \in joinTimers
    /\ ~(Reaches(t) /\ t.afterCheck)
    /\ joinTimers' = joinTimers \ {t}
    /\ joining' = IF Reaches(t) THEN FALSE ELSE joining
    /\ IF lowerCase(t.name) = <<"e", "r", "r", "o", "r">>
       THEN /\ joinError' = IF Reaches(t) THEN JoinErrorMessage ELSE joinError
            /\ UNCHANGED <<view, gameData>>
       ELSE /\ joinError' = joinError
            /\ gameData' = IF t.gameData = NoGameData THEN MockGame(t.code)
                            ELSE gameData
            /\ view' = "play"
    /\ UNCHANGED <<joinCode, joinName, gameStatus, statusTimer, statusFor>>
    /\ UNCHANGED <<notJoin, cgButApp>>

(* ---------------------------------------------------------------------- *)
(* App.                                                                   *)
(* ---------------------------------------------------------------------- *)

notApp == <<pipeVars, options, pureVars, gamePlayVars>>

(* onStartCreate of LandingPage: CreateGame is mounted.  The model follows *)
(* one CreateGame at a time: the screen is opened again once the           *)
(* generations of the previous one have settled.                          *)
onStartCreate ==
    /\ view = "landing"
    /\ \A g \in Generations : gens[g].pc \in {"unstarted", "settled"}
    /\ view' = "create"
    /\ preferredMechanics' = <<>>
    /\ avoidMechanics' = <<>>
    /\ contentInput' = ""
    /\ objective' = ""
    /\ canGenerate' = FALSE
    /\ fileName' = ""
    /\ isParsing' = FALSE
    /\ upload' = NoUpload
    /\ loading' = FALSE
    /\ progressStage' = NoStage
    /\ error' = NoError
    /\ isCancelled' = FALSE
    /\ UNCHANGED <<gameData, started, gens, cancelledGens, shown, delivered,
                   errorsShown, joinVars>>
    /\ UNCHANGED notApp

(* onJoinGame of LandingPage: StudentJoin is mounted; the timers of        *)
(* handleJoin that earlier instances left behind stay.                     *)
onJoinGame ==
    /\ view = "landing"
    /\ view' = "join"
    /\ joinCode' = <<>>
    /\ joinName' = <<>>
    /\ joinError' = NoError
    /\ joining' = FALSE
    /\ gameStatus' = NoStatus
    /\ statusTimer' = NoStatusTimer
    /\ statusFor' = <<>>
    /\ joinTimers' = {[t EXCEPT !.orphan = TRUE, !.afterCheck = FALSE] :
                        t \in joinTimers}
    /\ UNCHANGED <<gameData, cgButApp, uploadVars, hintVars>>
    /\ UNCHANGED notApp

(* onBack of CreateGame and of StudentJoin. *)
onBack ==
    /\ view \in {"create", "join"}
    /\ view' = "landing"
    /\ UNCHANGED <<gameData, cgButApp, uploadVars, hintVars, joinVars>>
    /\ UNCHANGED notApp

(* onExit of HostGame, and of GamePlay, which offers it on the screen of   *)
(* the completed game; the play is followed in SpecGamePlay.               *)
onExit ==
    /\ view \in {"host", "play"}
    /\ view' = "landing"
    /\ UNCHANGED <<gameData, cgButApp, uploadVars, hintVars, joinVars>>
    /\ UNCHANGED notApp

(* App after construction. *)
InitApp ==
    /\ ServiceIdle
    /\ view = "landing"
    /\ gameData = NoGameData
    /\ CreateGameInitial
    /\ NoGenerations
    /\ playData = NoPlayData
    /\ GamePlayInitial
    /\ StudentJoinInitial
    /\ joinTimers = {}

(* The codes and names typed while App is followed. *)
AppCodes == {<<"a", "b", "c", "-", "1", "2", "3">>, WIFI00}

AppNames == {<<"A", "n", "a", " ">>}

NextApp ==
    \/ onStartCreate
    \/ onJoinGame
    \/ onBack
    \/ onExit
    \/ setContent
    \/ setObjective
    \/ handleGenerate
    \/ \E g \in Generations : AttemptAnswered(g)
    \/ \E value \in AppCodes : setCode(value)
    \/ \E value \in AppNames : setName(value)
    \/ StatusChecked
    \/ handleJoin
    \/ \E t \in joinTimers : JoinTimerRuns(t)

SpecApp == InitApp /\ [][NextApp]_vars

(* App shows StudentJoin, just mounted, and has no game. *)
InitJoin ==
    /\ ServiceIdle
    /\ view = "join"
    /\ gameData = NoGameData
    /\ CreateGameInitial
    /\ NoGenerations
    /\ playData = NoPlayData
    /\ GamePlayInitial
    /\ StudentJoinInitial
    /\ joinTimers = {}

NextJoin ==
    \/ \E value \in TypedCodes : setCode(value)
    \/ \E value \in TypedNames : setName(value)
    \/ StatusChecked
    \/ handleJoin
    \/ \E t \in joinTimers : JoinTimerRuns(t)

SpecJoin == InitJoin /\ [][NextJoin]_vars

(* The same screen with the file input in use. *)
NextUpload ==
    \/ NextCreateGame
    \/ \E file \in Files : handleFileUpload(file)
    \/ ReadUnit
    \/ FileParsed

SpecUpload == InitCreateGame /\ [][NextUpload]_vars

----------------------------------------------------------------------------
(* Properties *)

CallOrder == [n \in 1..Len(calls) |-> calls[n].strategy]

FirstN(n) == [k \in 1..n |-> k - 1]

WarnedLabels == [n \in 1..Len(warned) |-> warned[n].strategy]

LadderLabels(n) == [k \in 1..n |-> strategies[k - 1].label]

(* C1: the strategies are attempted strictly in list order: the requests   *)
(* issued are those of strategies 0, 1, 2, ... with none skipped or        *)
(* repeated, at most three in all, exactly one per attempt, and the request *)
(* of attempt k+1 is issued only after the failures of attempts 0..k have   *)
(* been caught.                                                            *)
C1_StrategiesInOrder ==
    /\ Len(calls) <= strategiesLength
    /\ CallOrder = FirstN(Len(calls))
    /\ pc \in {"loop", "progress", "request", "throw", "rejected"} => Len(calls) = i
    /\ pc \in {"await", "check", "finalize", "parse", "catch", "backoff", "resolved"}
          => Len(calls) = i + 1
    /\ pc \in {"progress", "request", "await", "check", "finalize", "parse", "resolved"}
          => WarnedLabels = LadderLabels(i)
    /\ \A n \in 1..Len(calls) : Len(warned) >= n - 1

C1_Witness ==
    /\ pc = "rejected"
    /\ CallOrder = <<0, 1, 2>>

(* C2: when the provider answers attempt i in time with non-empty text    *)
(* that parses, the pipeline resolves with the GameData of that answer and *)
(* stops: no later request, no backoff, no further stage, no change of the *)
(* result.                                                                 *)
C2_SuccessTerminates ==
    /\ [](pc = "resolved" =>
            /\ result.status = "resolved"
            /\ result.data.title = <<strategies[i].label>>
            /\ result.data.code \in MintedCodes
            /\ wt[i] = "value"
            /\ Len(calls) = i + 1
            /\ backoffDue = -1
            /\ settles = 1)
    /\ [][(pc \in {"check", "finalize", "parse"} /\ provider[i].kind = "valid")
             => pc' \in {"finalize", "parse", "resolved"}]_vars
    /\ [][pc = "resolved"
             => /\ pc' = "resolved"
                /\ UNCHANGED <<i, calls, issuedAt, backoffDue, progress, warned,
                                result, settles>>]_vars

C2_Witness ==
    /\ pc = "resolved"
    /\ i = 1
    /\ now > issuedAt[1] + 1000
    /\ promise[2] = "unissued"

(* C3: a failing attempt is never surfaced on its own: the catch clause   *)
(* of an attempt that is not the last leaves the returned promise pending *)
(* and leads to the backoff and attempt i+1; the promise rejects only      *)
(* after all three strategies, the last included, have failed.             *)
C3_FailuresCaught ==
    /\ [](result.status = "rejected" =>
            /\ i = strategiesLength
            /\ WarnedLabels = LadderLabels(strategiesLength))
    /\ [](pc \in {"catch", "backoff"} => result.status = "pending")
    /\ [][(pc = "await" /\ wt[i] \in {"timeout", "error"}) => pc' = "catch"]_vars
    /\ [][(pc = "catch" /\ i < strategiesLength - 1)
             => (pc' = "backoff" /\ i' = i /\ result' = result)]_vars
    /\ [][(pc = "backoff" /\ pc' # "backoff")
             => (pc' = "loop" /\ i' = i + 1 /\ result' = result)]_vars

C3_Witness ==
    /\ pc = "await"
    /\ i = 2
    /\ Len(warned) = 2
    /\ warned[1].message = InvalidFormatMessage
    /\ warned[2].message = EmptyResponseMessage
    /\ result.status = "pending"

(* C4: when all three strategies fail the pipeline rejects exactly once   *)
(* with the fixed message, whatever the failures were; neither lastError   *)
(* nor any logged detail reaches the caller.                               *)
C4_OneFixedError ==
    /\ settles <= 1
    /\ result.status = "rejected" =>
          /\ settles = 1
          /\ result.error.message = ExhaustionMessage
          /\ result.error # lastError
          /\ \A n \in 1..Len(warned) : warned[n].message # result.error.message
          /\ result.data = NoData

C4_Witness ==
    /\ result.status = "rejected"
    /\ lastError.message = TimeoutError(MINIMAL_TIMEOUT, "Key Concepts").message
    /\ warned[1].message = ProviderError(0).message
    /\ warned[2].message = InvalidFormatMessage

(* C5: at every moment at most one provider request is outstanding; in    *)
(* particular the request of an attempt that failed by local timeout is no *)
(* longer pending once the next attempt has issued its own.                *)
C5_OneRequestOutstanding ==
    Cardinality({k \in StrategyIndex : promise[k] = "pending"}) <= 1

(* The provider has not settled the request of strategy k when its        *)
(* timeout elapses.                                                        *)
ProviderLate(k) ==
    provider[k].kind = "never" \/ provider[k].delay > strategies[k].timeout

AttemptFailedWith(k, message) ==
    /\ Len(warned) >= k + 1
    /\ warned[k + 1] = [strategy |-> strategies[k].label, message |-> message]

(* C6: if the provider has not settled when the strategy's timeout has    *)
(* elapsed, withTimeout rejects with the timeout error and the attempt     *)
(* fails with it, also when the provider never settles.                    *)
C6_LocalTimeout ==
    \A k \in StrategyIndex :
        /\ timer[k] = "fired" => wt[k] = "timeout"
        /\ (issuedAt[k] >= 0 /\ ProviderLate(k) /\ now > TimerDue(k)) =>
              /\ timer[k] = "fired"
              /\ wt[k] = "timeout"
              /\ AttemptFailedWith(k, TimeoutError(strategies[k].timeout,
                                                   strategies[k].label).message)

C6_Witness ==
    /\ provider[0].kind = "never"
    /\ now > TimerDue(0)
    /\ wt[0] = "timeout"
    /\ promise[0] = "pending"
    /\ i = 1

(* C7: when the provider promise settles before the timer fires, the      *)
(* timer is cleared before withTimeout settles: an attempt that ended      *)
(* through the provider has no timeout pending, and a cleared timer never  *)
(* fires.                                                                  *)
C7_TimerCleared ==
    /\ [](\A k \in StrategyIndex :
            /\ wt[k] \in {"value", "error"} => timer[k] = "cleared"
            /\ timer[k] = "armed" => (wt[k] = "pending" /\ promise[k] = "pending"))
    /\ [][\A k \in StrategyIndex :
             timer[k] = "cleared" => timer'[k] = "cleared"]_vars

C7_Witness ==
    /\ wt[0] = "error"
    /\ timer[0] = "cleared"
    /\ wt[1] = "value"
    /\ timer[1] = "cleared"
    /\ now > TimerDue(1)

(* C8: after the local timeout has won, no listener of that attempt's     *)
(* provider promise runs when the provider later responds.                 *)
C8_NoStaleListener == stale = {}

(* C9: each attempt has exactly one outcome: a settled withTimeout        *)
(* promise never changes; a response that arrives after the timeout has    *)
(* fired leaves the attempt failed, is not the result of the pipeline, and  *)
(* changes nothing of the attempt then in progress.                        *)
C9_SettleOnce ==
    /\ [][\A k \in StrategyIndex :
             wt[k] \in {"value", "timeout", "error"} => wt'[k] = wt[k]]_vars
    /\ [](\A k \in StrategyIndex :
            (timer[k] = "fired" /\ promise[k] \in {"fulfilled", "rejected"})
               => (wt[k] = "timeout" /\ (pc = "resolved" => i # k)))
    /\ [](result.status = "resolved" =>
            /\ ~ProviderLate(i)
            /\ result.data.title = <<strategies[i].label>>)
    /\ [][stale' # stale =>
             /\ UNCHANGED <<pc, i, result, settles, thrown, lastError, warned,
                            calls, progress, backoffDue>>
             /\ \A k \in StrategyIndex : wt'[k] = wt[k] /\ timer'[k] = timer[k]]_vars

C9_Witness ==
    /\ result.status = "rejected"
    /\ \E s \in stale : provider[s.strategy].kind = "valid" /\ s.pc = "await"
    /\ \E s \in stale : provider[s.strategy].kind = "valid" /\ s.pc = "rejected"

(* What a run whose observer does nothing does under the same provider.   *)
SilentSuccess(k) == provider[k].kind = "valid" /\ ~ProviderLate(k)

SilentAttempts ==
    IF \E k \in StrategyIndex : SilentSuccess(k)
    THEN 1 + Min({k \in StrategyIndex : SilentSuccess(k)})
    ELSE strategiesLength

SilentStatus ==
    IF \E k \in StrategyIndex : SilentSuccess(k) THEN "resolved" ELSE "rejected"

(* C10: the observer is no control input: whatever onProgress does, also  *)
(* when it throws, the run issues the provider requests and ends with the  *)
(* outcome of the run whose observer does nothing.                         *)
C10_ObserverNoControl ==
    result.status # "pending" =>
        /\ CallOrder = FirstN(SilentAttempts)
        /\ result.status = SilentStatus
        /\ result.status = "resolved"
              => result.data.title = <<strategies[SilentAttempts - 1].label>>

(* The JSON object a text holds, and whether it holds exactly one, in     *)
(* fence markers.                                                          *)
ObjectsIn(text) == {n \in 1..Len(text) : text[n].t = "object"}

ObjectOf(text) == text[CHOOSE n \in ObjectsIn(text) : TRUE].v

NonBlank(text) == SelectSeq(text, LAMBDA tok : tok.t # Ws.t)

IsFenced(text) ==
    LET nb == NonBlank(text) IN
    /\ Len(nb) = 3
    /\ nb[1].t \in {FenceJson.t, Fence.t}
    /\ nb[2].t = "object"
    /\ nb[3].t = Fence.t

(* C18: in every GameData parseGameResponse returns, isEngine equals      *)
(* (options.gameMode = engine) and code is the minted value, also when     *)
(* the parsed output carries a code or an isEngine of its own.             *)
C18_EnrichedFields ==
    parseOut.status = "returned" =>
        /\ parseOut.data.isEngine = (parseIn.options.gameMode = "engine")
        /\ parseOut.data.code = parseIn.minted

C18_Witness ==
    /\ parseOut.status = "returned"
    /\ parseIn.options.gameMode = "engine"
    /\ parseIn.minted = "K7QZ"
    /\ LET obj == ObjectOf(parseIn.text) IN
       /\ DOMAIN obj = {"title", "description", "code", "isEngine"}
       /\ obj.code = "EVIL"
       /\ obj.isEngine = FALSE

(* C19: for a well-formed object wrapped in fence markers the validator   *)
(* returns a GameData in which every model-supplied field other than code  *)
(* and isEngine has the value of the input, and whose code differs from    *)
(* the code the input supplied.                                            *)
C19_FencedRoundTrip ==
    (parseOut.status # "none" /\ IsFenced(parseIn.text)) =>
        LET obj == ObjectOf(parseIn.text) IN
        /\ parseOut.status = "returned"
        /\ \A f \in DOMAIN obj \ {"code", "isEngine"} : parseOut.data[f] = obj[f]
        /\ "code" \in DOMAIN obj => parseOut.data.code # obj.code

(* C20: text that does not parse after fence stripping makes              *)
(* parseGameResponse fail with the invalid-format error: no GameData, no   *)
(* second request within the attempt; the orchestrator goes on to the next *)
(* strategy and the error does not reach the caller.                       *)
C20_FormatErrorRetried ==
    /\ [][(pc = "parse" /\ provider[i].kind = "malformed")
             => /\ pc' = "catch"
                /\ thrown'.message = InvalidFormatMessage
                /\ UNCHANGED <<result, settles, calls, i>>]_vars
    /\ [](result.error.message # InvalidFormatMessage)
    /\ [](\A k \in StrategyIndex :
            (/\ k < strategiesLength - 1
             /\ provider[k].kind = "malformed"
             /\ ~ProviderLate(k)
             /\ now > ResponseDue(k)
             /\ issuedAt[k] >= 0)
            => (/\ AttemptFailedWith(k, InvalidFormatMessage)
                /\ (pc = "backoff" /\ i = k) \/ i > k))

C20_Witness ==
    /\ pc = "await"
    /\ i = 2
    /\ AttemptFailedWith(0, InvalidFormatMessage)
    /\ AttemptFailedWith(1, InvalidFormatMessage)
    /\ result.status = "pending"

(* The stage of each attempt, as the caller reads it. *)
StageText(k) ==
    CASE k = 0 -> "Analyzing content..."
      [] k = 1 -> "Retrying with condensed summary..."
      [] k = 2 -> "Retrying with key concepts..."

(* C11: before each attempt, and before its provider request is issued,   *)
(* the observer is invoked with the stage of that attempt: Analyzing       *)
(* content... for attempt 0, Retrying with <label, lower-cased>... for the *)
(* strategy of attempt i > 0.                                              *)
C11_StageBeforeRequest ==
    /\ [](observer = "none" => progress = <<>>)
    /\ [](observer = "returns" =>
            /\ pc \in {"request", "await", "check"}
                  => (progress # <<>> /\ progress[Len(progress)] = StageText(i))
            /\ \A n \in 1..Len(calls) :
                  \E m \in 1..Len(progress) : progress[m] = StageText(calls[n].strategy))
    /\ [][(observer = "returns" /\ calls' # calls)
             => (progress # <<>> /\ progress[Len(progress)] = StageText(i)
                 /\ progress' = progress)]_vars
    /\ [][(observer = "returns" /\ pc = "progress")
             => progress' = Append(progress, StageText(i))]_vars

C11_Witness ==
    /\ pc = "await"
    /\ i = 2
    /\ progress = <<"Analyzing content...", "Retrying with condensed summary...",
                    "Retrying with key concepts...">>

AllEmpty == \A k \in StrategyIndex : provider[k].kind = "empty"

(* C12: when all three strategies fail with empty responses the pipeline  *)
(* rejects with exactly one consolidated error and the observer has been   *)
(* invoked at most three times, once per attempt; in every run the         *)
(* observer is never invoked after the pipeline has settled.               *)
C12_EmptyResponses ==
    /\ [](AllEmpty => (Len(progress) <= i + 1 /\ Len(progress) <= strategiesLength))
    /\ []((AllEmpty /\ result.status # "pending") =>
            /\ result.status = "rejected"
            /\ result.error.message = ExhaustionMessage
            /\ settles = 1
            /\ Len(progress) <= 3
            /\ observer = "returns" => progress = <<StageText(0), StageText(1), StageText(2)>>)
    /\ [][result.status # "pending" => progress' = progress]_vars

C12_Witness ==
    /\ AllEmpty
    /\ \A k \in StrategyIndex : provider[k].delay = 1000
    /\ observer = "returns"
    /\ result.status = "rejected"
    /\ Len(progress) = 3

(* C15: every invocation eventually settles, resolved with a GameData or  *)
(* rejected with the exhaustion error, whatever the provider does, a       *)
(* provider that never responds included.                                  *)
C15_EventuallySettles ==
    <>(\/ result.status = "resolved" /\ result.data # NoData
       \/ result.status = "rejected" /\ result.error.message = ExhaustionMessage)

C15_Witness ==
    /\ \A k \in StrategyIndex : provider[k].kind = "never"
    /\ result.status = "rejected"
    /\ now = INITIAL_TIMEOUT + 1500 + FALLBACK_TIMEOUT + 3000 + MINIMAL_TIMEOUT

TimeoutThenValid ==
    /\ ProviderLate(0)
    /\ provider[1].kind = "valid"
    /\ ~ProviderLate(1)

(* C16: if strategy 1 times out and strategy 2 returns valid output, the  *)
(* orchestrator waits the backoff, issues the second request with a        *)
(* smaller content budget, and resolves with a GameData no later than      *)
(* timeout(strategy 1) + backoff + timeout(strategy 2) after the start.    *)
C16_TimeoutThenSuccess ==
    TimeoutThenValid =>
        /\ issuedAt[1] >= 0 =>
              /\ issuedAt[1] = INITIAL_TIMEOUT + 1500
              /\ calls[2].charLimit < calls[1].charLimit
              /\ calls[2].timeout = FALLBACK_TIMEOUT
        /\ result.status = "pending" => now <= INITIAL_TIMEOUT + 1500 + FALLBACK_TIMEOUT
        /\ now > INITIAL_TIMEOUT + 1500 + FALLBACK_TIMEOUT => result.status = "resolved"
        /\ result.status # "pending" =>
              /\ result.status = "resolved"
              /\ result.data.title = <<"Condensed Summary">>
              /\ Len(calls) = 2

C16_Witness ==
    /\ TimeoutThenValid
    /\ result.status = "resolved"
    /\ wt[0] = "timeout"
    /\ now <= INITIAL_TIMEOUT + 1500 + FALLBACK_TIMEOUT

(* When attempt k failed: at its timeout, or when the provider answered. *)
FailedAt(k) == IF ProviderLate(k) THEN TimerDue(k) ELSE ResponseDue(k)

(* C17: between a failed attempt i and attempt i+1 the orchestrator waits *)
(* 1500*(i+1) ms, 1500 then 3000, and the request of attempt i+1 is not    *)
(* issued before; after the failure of the last strategy the exhaustion    *)
(* error is raised without a backoff.                                      *)
C17_Backoff ==
    /\ issuedAt[1] >= 0 => issuedAt[1] = FailedAt(0) + 1500
    /\ issuedAt[2] >= 0 => issuedAt[2] = FailedAt(1) + 3000
    /\ pc = "backoff" =>
          /\ i < strategiesLength - 1
          /\ backoffDue = FailedAt(i) + 1500 * (i + 1)
          /\ now <= backoffDue
          /\ promise[i + 1] = "unissued"
    /\ pc = "throw" => now = FailedAt(2)

C17_Witness ==
    /\ pc = "rejected"
    /\ issuedAt[1] = INITIAL_TIMEOUT + 1500
    /\ issuedAt[2] = issuedAt[1] + 1000 + 3000
    /\ now = issuedAt[2] + MINIMAL_TIMEOUT

(* C13: after cancelGeneration has cancelled a generation, setProgressStage *)
(* is never called with a stage that generation emits, whatever the user   *)
(* does afterwards.                                                        *)
C13_NoStageAfterCancel == \A c \in shown : ~c.cancelled

(* C14: a generation that was cancelled never hands its game to            *)
(* onGameGenerated and never shows its error, also when a new generation   *)
(* is started before the cancelled one has settled.                        *)
C14_NoDeliveryAfterCancel ==
    /\ \A c \in delivered : ~c.cancelled
    /\ \A c \in errorsShown : ~c.cancelled

(* C22: when the content is no longer than the budget, preprocessContent  *)
(* returns it unchanged.                                                  *)
C22_PassThrough ==
    (ppOut.status = "returned" /\ Length(ppIn.content) <= ppIn.maxLength)
        => ppOut.text = ppIn.content

C22_Witness ==
    /\ ppOut.status = "returned"
    /\ Length(ppIn.content) = ppIn.maxLength
    /\ ppIn.maxLength = LOW
    /\ ppOut.text = Document(LOW)

MatchesSchema(data) ==
    /\ "questions" \in DOMAIN data
    /\ Len(data.questions) = RequiredQuestions
    /\ \A n \in 1..Len(data.questions) :
          /\ 0 <= data.questions[n].correctIndex
          /\ data.questions[n].correctIndex < data.questions[n].options

(* C21: every GameData that is returned holds exactly 5 questions, each   *)
(* with 0 <= correctIndex < options.length; output that parses but does    *)
(* not match is not returned as a GameData.                                *)
C21_SchemaVerified == parseOut.status = "returned" => MatchesSchema(parseOut.data)

(* C25: along the ladder the character limit falls (12000, 6000, 3000),   *)
(* the timeout falls (90 s, 75 s, 60 s) and the temperature rises (0.4,   *)
(* 0.5, 0.6); the ladder stays as it is during an invocation: the n-th    *)
(* request is made with the values of the n-th strategy.                  *)
C25_LadderMonotone ==
    /\ \A k \in StrategyIndex : k + 1 \in StrategyIndex =>
          /\ strategies[k + 1].charLimit < strategies[k].charLimit
          /\ strategies[k + 1].timeout < strategies[k].timeout
          /\ strategies[k + 1].temperature > strategies[k].temperature
    /\ [k \in StrategyIndex |-> strategies[k].charLimit]
          = (0 :> 12000) @@ (1 :> 6000) @@ (2 :> 3000)
    /\ [k \in StrategyIndex |-> strategies[k].timeout]
          = (0 :> 90000) @@ (1 :> 75000) @@ (2 :> 60000)
    /\ [k \in StrategyIndex |-> strategies[k].temperature]
          = (0 :> 4) @@ (1 :> 5) @@ (2 :> 6)
    /\ \A n \in 1..Len(calls) :
          /\ calls[n].charLimit = strategies[n - 1].charLimit
          /\ calls[n].timeout = strategies[n - 1].timeout
          /\ calls[n].temperature = strategies[n - 1].temperature
    /\ \A n \in 1..(Len(calls) - 1) :
          /\ calls[n + 1].charLimit < calls[n].charLimit
          /\ calls[n + 1].timeout < calls[n].timeout
          /\ calls[n + 1].temperature > calls[n].temperature

C25_Witness ==
    /\ Len(calls) = strategiesLength
    /\ calls[1].timeout = 90000
    /\ calls[3].temperature = 6
    /\ pc = "rejected"

(* C26: no step changes the options, and the request of attempt n is      *)
(* built from options.content as passed in, condensed to the character    *)
(* limit of strategy n, and carries that strategy's temperature and       *)
(* timeout.                                                               *)
C26_OptionsFrame ==
    /\ [](\A n \in 1..Len(calls) :
            /\ calls[n].prompt.content
                  = preprocessContent(options.content, strategies[n - 1].charLimit)
            /\ Length(options.content) <= strategies[n - 1].charLimit
                  => calls[n].prompt.content = options.content
            /\ calls[n].temperature = strategies[n - 1].temperature
            /\ calls[n].timeout = strategies[n - 1].timeout)
    /\ [][options' = options]_vars

C26_Witness ==
    /\ Len(calls) = strategiesLength
    /\ Length(options.content) > HIGH + HIGH
    /\ calls[3].prompt.content # calls[2].prompt.content
    /\ Length(calls[3].prompt.content) = LOW + ContinuesMarkerLength + MoreMarkerLength

(* C30: the theme of every prompt follows the game mode: for engine the   *)
(* preferred genre when one is given and Adventure otherwise, for legacy   *)
(* Quiz whatever the preferred genre; every prompt asks for exactly 5      *)
(* questions.                                                              *)
C30_ThemeFromMode ==
    \A n \in 1..Len(calls) :
        /\ calls[n].prompt.questions = 5
        /\ options.gameMode = "legacy" => calls[n].prompt.theme = "Quiz"
        /\ (options.gameMode = "engine" /\ options.preferredGenre = "racing")
              => calls[n].prompt.theme = "racing"
        /\ (options.gameMode = "engine" /\ options.preferredGenre # "racing")
              => calls[n].prompt.theme = "Adventure"

C30_Witness ==
    /\ Len(calls) = 2
    /\ options.gameMode = "legacy"
    /\ options.preferredGenre = "racing"
    /\ calls[2].prompt.theme = "Quiz"

(* The upload that is settling fails: parseFile throws, or what it        *)
(* returns is blank.                                                      *)
UploadFails ==
    upload.active /\ (~parseFile(upload.file).ok \/ IsBlank(parseFile(upload.file).text))

(* C27: when parseFile fails or yields only whitespace, handleFileUpload  *)
(* leaves the content empty, resets fileName, sets an error and clears    *)
(* isParsing; generateGameFromContent is not called while the content or  *)
(* the objective is blank or a file is being parsed.                      *)
C27_IngestionFailures ==
    [][/\ (UploadFails /\ ~upload'.active)
            => (contentInput' = "" /\ fileName' = "" /\ error' # NoError /\ ~isParsing')
       /\ started' # started
            => (~IsBlank(contentInput) /\ ~IsBlank(objective)
                  /\ ~isParsing /\ ~upload.active)]_vars

C27_Witness ==
    /\ ~upload.active
    /\ ~isParsing
    /\ error = NoTextMessage
    /\ fileName = ""
    /\ contentInput = ""
    /\ objective = "goal"
    /\ started = 1

(* C28: of a PDF or a deck with more pages or slides than the cap, no     *)
(* more than the cap are read: the largest document is not read in full.  *)
C28_ScanCapped ==
    (upload.active /\ upload.file.extension \in PagedExtensions
        /\ upload.file.units = MaxPages)
      => upload.read < MaxPages

(* The steps of the strategy loop, as pairs of positions. *)
OrchestratorSteps ==
    {<<[pc |-> "unstarted", i |-> 0], [pc |-> "await", i |-> 0]>>}
    \cup {<<[pc |-> "await", i |-> k], [pc |-> "backoff", i |-> k]>> :
             k \in 0..(strategiesLength - 2)}
    \cup {<<[pc |-> "backoff", i |-> k], [pc |-> "await", i |-> k + 1]>> :
             k \in 0..(strategiesLength - 2)}
    \cup {<<[pc |-> "await", i |-> k], [pc |-> "settled", i |-> k]>> : k \in StrategyIndex}

(* C29: cancelling leaves the orchestrator alone.  Pressing Cancel moves   *)
(* no generation; whether cancelled or not, a generation that awaits its   *)
(* provider can be answered or rejected and one that backs off goes on to  *)
(* the next strategy, always by a step of the loop; and when a generation  *)
(* settles while the flag is set, nothing on the screen changes.           *)
C29_CancelKeepsControlFlow ==
    /\ [](\A g \in Generations :
            /\ gens[g].pc = "await"
                  => (ENABLED AttemptRejected(g) /\ ENABLED AttemptAnswered(g))
            /\ gens[g].pc = "backoff" => ENABLED RetryNextStrategy(g))
    /\ [][/\ cancelledGens' # cancelledGens => gens' = gens
          /\ \A g \in Generations :
                gens'[g] # gens[g] => <<gens[g], gens'[g]>> \in OrchestratorSteps
          /\ \A g \in Generations :
                (gens'[g] # gens[g] /\ isCancelled /\ started' = started)
                  => UNCHANGED <<view, gameData, loading, progressStage, error,
                                 isCancelled, delivered, errorsShown, shown>>]_vars

C29_Witness ==
    /\ started = 1
    /\ cancelledGens = {1}
    /\ isCancelled
    /\ gens[1] = [pc |-> "settled", i |-> 1]
    /\ shown = {[gen |-> 1, cancelled |-> FALSE]}
    /\ delivered = {}
    /\ errorsShown = {}
    /\ ~loading
    /\ view = "create"

(* The provider answers the request of strategy k in time, with text. *)
AnsweredWithText(k) ==
    /\ provider[k].kind \in {"valid", "malformed"}
    /\ provider[k].delay < strategies[k].timeout

(* What the observer hears during the first n attempts, once they are over. *)
RECURSIVE StagesOfAttempts(_)
StagesOfAttempts(n) ==
    IF n = 0 THEN <<>>
    ELSE StagesOfAttempts(n - 1)
           \o <<StageText(n - 1)>>
           \o (IF AnsweredWithText(n - 1) THEN <<"Finalizing game...">> ELSE <<>>)

(* C31: an attempt answered in time with text reports its stage and then  *)
(* Finalizing game..., the latter before parsing; an attempt that times   *)
(* out, is rejected or gets no text reports its stage only; a run reports *)
(* at most 6 stages.                                                      *)
C31_ProgressPerAttempt ==
    observer = "returns" =>
        /\ Len(progress) <= 6
        /\ pc = "parse" => progress[Len(progress)] = "Finalizing game..."
        /\ pc \in {"resolved", "rejected"} => progress = StagesOfAttempts(Len(calls))

C31_Witness ==
    /\ observer = "returns"
    /\ pc = "rejected"
    /\ Len(progress) = 6
    /\ progress[2] = "Finalizing game..."
    /\ progress[3] = "Retrying with condensed summary..."

(* C32: for content longer than a budget of at least 3, the three         *)
(* segments are ranges of the content that do not overlap and come in     *)
(* document order, each floor(budget/3) characters long, and the output   *)
(* is 3*floor(budget/3) characters plus the two markers long.             *)
C32_DisjointSegments ==
    (ppOut.status = "returned" /\ Length(ppIn.content) > ppIn.maxLength
        /\ ppIn.maxLength >= 3)
      => LET out == ppOut.text
             third == ppIn.maxLength \div 3
         IN  /\ Len(out) = 5
             /\ \A n \in {1, 3, 5} : out[n].t = "doc" /\ out[n].to - out[n].from = third
             /\ out[2] = ContinuesMarker
             /\ out[4] = MoreMarker
             /\ 0 <= out[1].from
             /\ out[1].to <= out[3].from
             /\ out[3].to <= out[5].from
             /\ out[5].to <= Length(ppIn.content)
             /\ Length(out) = 3 * third + 31 + 26

C32_Witness ==
    /\ ppOut.status = "returned"
    /\ ppIn.maxLength = LOW
    /\ Length(ppIn.content) = LOW + 1
    /\ ppOut.text[3].from = 1000
    /\ ppOut.text[5].from = 2001

(* The generations in flight that the user has not cancelled. *)
LiveGenerations ==
    {g \in Generations : gens[g].pc \in {"await", "backoff"} /\ g \notin cancelledGens}

(* C33: while a generation that was not cancelled is in flight, loading   *)
(* is true, and at most one such generation is in flight.                 *)
C33_LoadingWhileInFlight ==
    /\ LiveGenerations # {} => loading
    /\ Cardinality(LiveGenerations) <= 1

(* C34: no mechanic id is in both lists, and toggling an id that is in    *)
(* the list it is toggled on only takes it out of that list.              *)
C34_MechanicsDisjoint ==
    /\ [](\A m \in Mechanics :
            ~(includes(preferredMechanics, m) /\ includes(avoidMechanics, m)))
    /\ [][\A m \in Mechanics :
            /\ (includes(preferredMechanics, m) /\ ~includes(preferredMechanics', m)
                   /\ ~includes(avoidMechanics', m))
                 => (avoidMechanics' = avoidMechanics
                       /\ preferredMechanics' = without(preferredMechanics, m))
            /\ (includes(avoidMechanics, m) /\ ~includes(avoidMechanics', m)
                   /\ ~includes(preferredMechanics', m))
                 => (preferredMechanics' = preferredMechanics
                       /\ avoidMechanics' = without(avoidMechanics, m))]_vars

C34_Witness ==
    /\ preferredMechanics = <<"combat">>
    /\ avoidMechanics = <<"economy", "timer">>

(* C35: an answer is taken only in phase question and at most once per    *)
(* question; the phases follow lobby, question, submitted, results and    *)
(* then question or complete; only the timer moves submitted to results,  *)
(* and no timer is left to run once the next question shows.              *)
C35_PhaseOrder ==
    /\ [](\A q \in 1..Len(answersTaken) : answersTaken[q] <= 1)
    /\ [](phase = "question" => resultsTimers = <<>>)
    /\ [][/\ answersTaken' # answersTaken => phase = "question"
          /\ phase' # phase =>
                <<phase, phase'>> \in {<<"lobby", "question">>,
                                       <<"question", "submitted">>,
                                       <<"submitted", "results">>,
                                       <<"results", "question">>,
                                       <<"results", "complete">>}
          /\ (phase = "submitted" /\ phase' = "results") =>
                (resultsTimers = <<[delay |-> 1000, phase |-> "results"]>>
                   /\ resultsTimers' = <<>>)]_vars

C35_Witness ==
    /\ phase = "question"
    /\ currentQuestionIndex = 1
    /\ answersTaken[1] = 1

(* C36: currentQuestionIndex only grows, by one per handleNextQuestion,   *)
(* and stays an index of questions; complete is entered only from the     *)
(* results of the last question and is never left.                        *)
C36_IndexWithinQuestions ==
    /\ [](Len(playData.questions) >= 1 =>
            currentQuestionIndex \in 0..(Len(playData.questions) - 1))
    /\ [][/\ currentQuestionIndex' # currentQuestionIndex =>
                /\ currentQuestionIndex' = currentQuestionIndex + 1
                /\ phase = "results"
                /\ phase' = "question"
          /\ (phase' = "complete" /\ phase # "complete") =>
                /\ phase = "results"
                /\ currentQuestionIndex = Len(playData.questions) - 1
          /\ phase = "complete" => phase' = "complete"]_vars

C36_Witness ==
    /\ phase = "complete"
    /\ Len(playData.questions) = 3
    /\ currentQuestionIndex = 2

C39_JoinsOnlyFoundCode ==
    [][(view = "join" /\ view' = "play") =>
         \E t \in joinTimers \ joinTimers' :
            /\ Len(t.code) = 6
            /\ t.statusFor = t.code
            /\ statusOf(t.code) = "found"
            /\ trimName(t.name) # <<>>]_vars

(* C38: in the views host and play App has a game; host is entered only   *)
(* by handleGameGenerated with the generated game; play is entered only   *)
(* by handleStudentJoin, which keeps a generated game and otherwise       *)
(* installs the mock game with the entered code.                          *)
C38_GameBehindHostAndPlay ==
    /\ [](view \in {"host", "play"} => gameData # NoGameData)
    /\ [][/\ (view' = "host" /\ view # "host") =>
                /\ delivered' # delivered
                /\ gameData'.origin = "generated"
          /\ (view' = "play" /\ view # "play") =>
                \E t \in joinTimers \ joinTimers' :
                    IF gameData.origin = "generated"
                    THEN gameData' = gameData
                    ELSE gameData' = MockGame(t.code)]_vars

====
